---- MODULE Spec2Model ----
(***************************************************************************)
(* Langsplain: the three diagram renderers (architecture, training,        *)
(* inference), the guided tour and the host application's section and      *)
(* info-panel wiring, as one state machine.                                *)
(*                                                                         *)
(* A JavaScript handler runs to completion, so every handler is one        *)
(* action.  Handlers call each other, and a call may throw; each function  *)
(* of the source is therefore an operator from a world record (all module  *)
(* variables and the part of the DOM they write) to a world record, with   *)
(* the field err set once an exception has been raised.  A caller stops at *)
(* the first callee that raised, as the JavaScript caller does.            *)
(***************************************************************************)
EXTENDS Integers, Sequences, FiniteSets, TLC

NULL == "null"

Variants == {"architecture", "training", "inference"}

\* ---------------------------------------------------------------- bounds
\* container.clientWidth values offered to the renderers.  They are positive, so
\* the fallbacks of `container.clientWidth || 700` and `|| width` are not taken
\* and the width captured by the resize closure is never read.
WidthSmall == 500
WidthLarge == 1000
Widths == {WidthSmall, WidthLarge}
\* where the layouts are explored: every container width from 1 to MaxWidth
MaxWidth == 700
LayoutWidths == 1 .. MaxWidth
\* section switches explored after the initial one (sectionRenderToken cap)
MaxRenderToken == 2
\* the same cap where only sections, clicks and links are explored: a link's
\* render request can then be superseded by a later switch
MaxSwitchToken == 3

\* ---------------------------------------------------------------- COMPONENTS
ArchComponents ==
    {"input", "embeddings", "transformerBlock", "attention", "residual1",
     "ffn", "moe", "residual2", "outputProjection", "output"}

TrainComponents ==
    {"trainingData", "datasetPrep", "forwardPass", "lossFunction",
     "backpropagation", "optimizer", "sft", "preferenceTuning"}

InfComponents ==
    {"inputPrompt", "tokenize", "prefillPhase", "autoregressiveLoop", "logits",
     "sampling", "stopCondition", "kvCache", "detokenize"}

COMPONENTS(v) ==
    CASE v = "architecture" -> ArchComponents
      [] v = "training" -> TrainComponents
      [] v = "inference" -> InfComponents

\* components drawn as a group that holds a rect of class box-bg
Boxes(v) ==
    CASE v = "architecture" -> ArchComponents \ {"transformerBlock"}
      [] v = "training" -> TrainComponents
      [] v = "inference" -> InfComponents \ {"autoregressiveLoop"}

\* groups that carry a click listener
Clickable(v) ==
    CASE v = "architecture" -> ArchComponents \ {"transformerBlock"}
      [] v = "training" -> TrainComponents
      [] v = "inference" -> InfComponents

\* comp.infoKey ("" where the descriptor has none)
InfoKey(v, key) ==
    IF v = "architecture"
    THEN CASE key = "input" -> "tokenization"
           [] key = "residual1" -> "residuals"
           [] key = "residual2" -> "residuals"
           [] key = "output" -> "generation"
           [] key = "transformerBlock" -> ""
           [] OTHER -> key
    ELSE key

\* a key no diagram defines
UnknownKey == "noSuchComponent"

VARIABLES
    \* module state of the three diagram modules, indexed by variant
    svg,               \* svg handle is non-null
    currentHighlight,
    onComponentClick,  \* NULL, or the name of the registered handler
    resizeHandler,     \* resizeHandler is non-null
    moeMode,           \* diagram.js only
    \* window and document
    winListeners,      \* number of 'resize' listeners each module has on window
    clientWidth,       \* #diagram-container's clientWidth
    viewWidth,         \* width in the svg's viewBox (0: no svg)
    emph,              \* boxes whose .box-bg has the glow filter
    hovered,           \* the box under the pointer
    hiddenClass,       \* architecture groups with class 'hidden'
    opacityZero,       \* architecture groups with opacity 0
    toggleText,        \* text of #ffn-block .toggle-text
    arrows,            \* line.arrow elements of the architecture svg, as <<from, to>>
    \* Tour
    currentStep, active, overlayActive, tooltipActive, onExit,
    \* app.js
    currentView, currentSection, infoPanelOpen, currentInfoKey,
    currentDiagramModule, sectionRenderToken, frames,
    panelContent,      \* <<section, infoKey>> of the content in #info-panel
    spotlight,         \* style.display of .tour-spotlight ("": never set)
    componentY,        \* inference-diagram.js: COMPONENTS[key].y, in half pixels
    drawn,             \* what each svg holds: its layout, groups and connectors
    \* KVCacheDemoUI (kv-cache-demo.js)
    kvCurrentStep,     \* this.currentStep
    isPlaying, kvMode, generatedTokens,
    cache,             \* rows in cache.keys, and in cache.values
    stats,
    savings,           \* what updateSavings last displayed
    playText,          \* text of #play-text
    kvModalOpen,       \* #kvcache-modal has class 'open'
    kvTasks,           \* handlePlay calls suspended in a sleep(), oldest first
    stepwise,          \* since the last reset no two generations overlapped
    \* attention-demo.js
    weights,           \* the module's weights: NoWeights, or the object built
    built,             \* weights objects constructed so far
    result, currentLayer, currentHead,   \* of the AttentionDemoUI object
    attnReady,         \* AttentionDemoUI.init() has built the demo's controls
    animating,         \* this.animating
    flowTasks,         \* animateFlow calls suspended in a sleep(), oldest first
    flowLog,           \* selections the animation made since it last started
    interrupted,       \* run or a button was used while that animation ran
    \* observation of the last handler
    err,               \* it raised an exception
    calls,             \* callbacks it invoked, in order
    lastOp,            \* its name and argument; again: it repeats the call before it
    tourScript,        \* next() calls since start() with no other tour call between (-1: none)
    dut                \* renderer driven by the renderer-level specification

vars ==
    <<svg, currentHighlight, onComponentClick, resizeHandler, moeMode,
      winListeners, clientWidth, viewWidth, emph, hovered,
      hiddenClass, opacityZero, toggleText, arrows,
      currentStep, active, overlayActive, tooltipActive, onExit,
      currentView, currentSection, infoPanelOpen, currentInfoKey,
      currentDiagramModule, sectionRenderToken, frames,
      panelContent, spotlight, componentY, drawn,
      kvCurrentStep, isPlaying, kvMode, generatedTokens, cache, stats,
      savings, playText, kvModalOpen, kvTasks, stepwise,
      weights, built, result, currentLayer, currentHead, attnReady,
      animating, flowTasks, flowLog, interrupted,
      err, calls, lastOp, tourScript, dut>>

\* the state of the KV-cache demo and its modal
kvVars ==
    <<kvCurrentStep, isPlaying, kvMode, generatedTokens, cache, stats,
      savings, playText, kvModalOpen, kvTasks, stepwise>>

\* the state of the attention demo
attnVars ==
    <<weights, built, result, currentLayer, currentHead, attnReady,
      animating, flowTasks, flowLog, interrupted>>

\* the current state as a world record
World ==
    [svg |-> svg, currentHighlight |-> currentHighlight,
     onComponentClick |-> onComponentClick, resizeHandler |-> resizeHandler,
     moeMode |-> moeMode, winListeners |-> winListeners,
     clientWidth |-> clientWidth, viewWidth |-> viewWidth,
     emph |-> emph, hovered |-> hovered,
     hiddenClass |-> hiddenClass, opacityZero |-> opacityZero,
     toggleText |-> toggleText, arrows |-> arrows,
     currentStep |-> currentStep, active |-> active,
     overlayActive |-> overlayActive, tooltipActive |-> tooltipActive,
     onExit |-> onExit,
     currentView |-> currentView, currentSection |-> currentSection,
     infoPanelOpen |-> infoPanelOpen, currentInfoKey |-> currentInfoKey,
     currentDiagramModule |-> currentDiagramModule,
     sectionRenderToken |-> sectionRenderToken, frames |-> frames,
     panelContent |-> panelContent, spotlight |-> spotlight,
     rendered |-> <<>>,
     err |-> err, calls |-> calls]

\* a handler starts with nothing raised, nothing called back and nothing
\* rendered
Fresh == [World EXCEPT !.err = FALSE, !.calls = <<>>, !.rendered = <<>>]

Throw(w) == [w EXCEPT !.err = TRUE]

\* ---------------------------------------------------------------- diagram-layout-utils.js
\* Lengths are whole numbers of half pixels: container widths are whole pixels
\* and the layout code halves widths and heights, nothing finer.
px(n) == 2 * n

MathMin(a, b) == IF a <= b THEN a ELSE b

MathMax(a, b) == IF a >= b THEN a ELSE b

clamp(value, min, max) ==
    LET lower == MathMin(min, max)
        upper == MathMax(min, max)
    IN MathMin(MathMax(value, lower), upper)

getHorizontalBounds(width, padding) ==
    LET safePadding == MathMax(0, padding)
        minX == safePadding
    IN [minX |-> minX, maxX |-> MathMax(minX, width - safePadding)]

getCenteredBox(width, maxBoxWidth, sidePadding) ==
    LET safeMaxBoxWidth == MathMax(0, maxBoxWidth)
        safeSidePadding == MathMax(0, sidePadding)
        maxAllowedWidth == MathMax(0, width - safeSidePadding * 2)
        boxWidth == MathMin(safeMaxBoxWidth, maxAllowedWidth)
        centerX == width \div 2
        boxX == centerX - boxWidth \div 2
    IN [boxX |-> boxX, boxWidth |-> boxWidth, centerX |-> centerX,
        leftEdge |-> boxX, rightEdge |-> boxX + boxWidth]

\* ---------------------------------------------------------------- layouts
\* diagram.js: LAYOUT_BOUNDS_PADDING 8, BOX_MAX_WIDTH 400, BOX_SIDE_PADDING 40,
\* CONTAINER_INSET 15, COMPONENTS.transformerBlock.y 150
getArchitectureLayout(width) ==
    LET bounds == getHorizontalBounds(width, px(8))
        centered == getCenteredBox(width, px(400), px(40))
        containerRightEdge == centered.rightEdge + px(15)
        labelFitsRight == (bounds.maxX - containerRightEdge) >= px(72)
        mode == IF labelFitsRight THEN "wide" ELSE "narrow"
    IN [bounds |-> bounds,
        mode |-> mode,
        boxX |-> centered.boxX,
        boxWidth |-> centered.boxWidth,
        centerX |-> centered.centerX,
        containerLabelX |->
            IF mode = "wide"
            THEN clamp(containerRightEdge + px(8), bounds.minX + px(6), bounds.maxX - px(6))
            ELSE clamp(centered.leftEdge + px(8), bounds.minX + px(6), bounds.maxX - px(6)),
        containerLabelY |-> px(150) + px(20),
        containerLabelAnchor |-> "start"]

\* the mode with the comparison of availableRight turned round
loopModeReversed(width) ==
    LET bounds == getHorizontalBounds(width, px(8))
        rightEdge == getCenteredBox(width, px(460), px(50)).rightEdge
        availableRight == bounds.maxX - rightEdge
    IN IF availableRight <= px(92) THEN "wide" ELSE "narrow"

\* training-diagram.js, the local `mode` of getTrainingLayout:
\* LOOP_BOUNDS_PADDING 8, BOX_MAX_WIDTH 460, BOX_SIDE_PADDING 50,
\* LOOP_WIDE_MIN_RIGHT_SPACE 92
loopMode(width) ==
    LET bounds == getHorizontalBounds(width, px(8))
        rightEdge == getCenteredBox(width, px(460), px(50)).rightEdge
        availableRight == bounds.maxX - rightEdge
    IN IF availableRight >= px(92) THEN "wide" ELSE "narrow"

\* optimizer: y 395, height 56; forwardPass: y 170, height 56;
\* LOOP_WIDE_START_OFFSET 10, LOOP_WIDE_LANE_OFFSET 58,
\* LOOP_NARROW_START_OFFSET 6, LOOP_NARROW_LANE_OFFSET 24
getTrainingLayout(width) ==
    LET bounds == getHorizontalBounds(width, px(8))
        box == getCenteredBox(width, px(460), px(50))
        rightEdge == box.rightEdge
        fromY == px(395) + px(56) \div 2
        toY == px(170) + px(56) \div 2
        mode == loopMode(width)
        startOffset == IF mode = "wide" THEN px(10) ELSE px(6)
        laneOffset == IF mode = "wide" THEN px(58) ELSE px(24)
        laneX == clamp(rightEdge + laneOffset, bounds.minX + px(24), bounds.maxX)
        startX == clamp(rightEdge + startOffset, bounds.minX + px(20), laneX - px(6))
        endX == clamp(rightEdge + px(10), bounds.minX + px(20), laneX - px(6))
    IN [boxX |-> box.boxX,
        boxWidth |-> box.boxWidth,
        centerX |-> box.centerX,
        loop |-> [fromY |-> fromY, toY |-> toY, startX |-> startX,
                  laneX |-> laneX, endX |-> endX]]

\* inference-diagram.js: the y of every entry of COMPONENTS as the module is
\* loaded; applyLayout later rewrites those of kvCache and detokenize
InferenceY ==
    [inputPrompt |-> px(20), tokenize |-> px(95), prefillPhase |-> px(170),
     autoregressiveLoop |-> px(250), logits |-> px(285), sampling |-> px(350),
     stopCondition |-> px(415), kvCache |-> px(305), detokenize |-> px(505)]

\* the heights the layout reads, and kvCache.width
InferenceHeight ==
    [autoregressiveLoop |-> px(230), sampling |-> px(48), kvCache |-> px(78),
     detokenize |-> px(56)]

kvCacheWidth == px(180)

\* BASE_LAYOUT
BASE_LAYOUT == [kvY |-> px(285), detokenizeY |-> px(505), height |-> px(600)]

\* the part of a layout that both modes compute alike, but for mainRight
inferenceCommon(y, width, kvX, kvWidth, mainRight) ==
    LET bounds == getHorizontalBounds(width, px(8))
        decodeInsetRight == px(20)
    IN [kvReadPortX |-> clamp(kvX + kvWidth \div 2, kvX + px(2), kvX + kvWidth - px(2)),
        decodeInX |-> clamp(mainRight - decodeInsetRight, bounds.minX + px(20), bounds.maxX - px(20)),
        decodeInY |-> y.sampling + InferenceHeight.sampling \div 2]

\* getInferenceLayout for the given kvY of wide mode
inferenceLayoutWith(y, width, wideKvY) ==
    LET bounds == getHorizontalBounds(width, px(8))
        sidePadding == px(20)
        laneGap == px(36)
        laneInset == px(8)
        kvWritePortInsetNarrow == px(2)
        kvMinWidth == px(150)
        kvMaxWidth == kvCacheWidth
        kvWidth == clamp(width - px(40), kvMinWidth, kvMaxWidth)
        wideMainWidth == MathMin(px(430), width - sidePadding * 2 - kvWidth - laneGap)
    IN IF wideMainWidth >= px(320)
       THEN LET totalWidth == wideMainWidth + laneGap + kvWidth
                laneLayout == getCenteredBox(width, totalWidth, sidePadding)
                mainX == laneLayout.leftEdge
                mainRight == mainX + wideMainWidth
                kvX == clamp(mainRight + laneGap, bounds.minX + px(4), bounds.maxX - kvWidth)
                loopLaneX == clamp(mainRight + laneInset, mainRight + px(4), bounds.maxX - px(2))
                kvWritePortX == clamp(kvX + kvWidth \div 2, kvX + px(2), kvX + kvWidth - px(2))
                kvWriteLaneX == clamp(kvWritePortX, mainRight + px(4), bounds.maxX - px(2))
                common == inferenceCommon(y, width, kvX, kvWidth, mainRight)
            IN [mode |-> "wide",
                mainX |-> mainX,
                mainWidth |-> wideMainWidth,
                kvX |-> kvX,
                kvY |-> wideKvY,
                kvWidth |-> kvWidth,
                loopLaneX |-> loopLaneX,
                kvWriteLaneX |-> kvWriteLaneX,
                kvWritePortX |-> kvWritePortX,
                kvReadPortX |-> common.kvReadPortX,
                decodeInX |-> common.decodeInX,
                decodeInY |-> common.decodeInY,
                detokenizeY |-> BASE_LAYOUT.detokenizeY,
                height |-> BASE_LAYOUT.height]
       ELSE LET narrowMain == getCenteredBox(width, px(460), px(24))
                mainWidth == narrowMain.boxWidth
                mainX == narrowMain.boxX
                mainRight == mainX + mainWidth
                kvY == y.autoregressiveLoop + InferenceHeight.autoregressiveLoop + px(10)
                kvX == clamp(width - kvWidth - px(20), bounds.minX + px(4), bounds.maxX - kvWidth)
                detokenizeY == kvY + InferenceHeight.kvCache + px(26)
                loopLaneX == clamp(mainRight + laneInset + px(2), mainRight + px(4), bounds.maxX - px(2))
                kvWriteLaneX == clamp(kvX + kvWidth - kvWritePortInsetNarrow, mainRight + px(8), bounds.maxX - px(2))
                common == inferenceCommon(y, width, kvX, kvWidth, mainRight)
            IN [mode |-> "narrow",
                mainX |-> mainX,
                mainWidth |-> mainWidth,
                kvX |-> kvX,
                kvY |-> kvY,
                kvWidth |-> kvWidth,
                loopLaneX |-> loopLaneX,
                kvWriteLaneX |-> kvWriteLaneX,
                kvWritePortX |-> clamp(kvWriteLaneX, kvX + px(2), kvX + kvWidth - px(2)),
                kvReadPortX |-> common.kvReadPortX,
                decodeInX |-> common.decodeInX,
                decodeInY |-> common.decodeInY,
                detokenizeY |-> detokenizeY,
                height |-> detokenizeY + InferenceHeight.detokenize + px(30)]

\* getInferenceLayout that places the wide cache box where the last pass left it
getInferenceLayoutFromLastPass(y, width) ==
    inferenceLayoutWith(y, width, y.kvCache)

\* getInferenceLayout(width), with the component table y as it now stands
getInferenceLayout(y, width) ==
    inferenceLayoutWith(y, width, BASE_LAYOUT.kvY)

\* applyLayout that moves the cache box only
applyLayoutCacheOnly(y, layout) ==
    [y EXCEPT !.kvCache = layout.kvY]

\* applyLayout(layout) on the component table y
applyLayout(y, layout) ==
    [y EXCEPT !.kvCache = layout.kvY, !.detokenize = layout.detokenizeY]

\* the layout a renderer computes for a container that is width pixels wide
layoutOf(v, y, width) ==
    CASE v = "architecture" -> getArchitectureLayout(px(width))
      [] v = "training" -> getTrainingLayout(px(width))
      [] v = "inference" -> getInferenceLayout(y, px(width))

\* the mode that layout is in
modeOf(v, y, width) ==
    IF v = "training" THEN loopMode(px(width)) ELSE layoutOf(v, y, width).mode

\* ---------------------------------------------------------------- drawings
\* Object.entries(COMPONENTS) of diagram.js, in order
ArchOrder ==
    <<"input", "embeddings", "transformerBlock", "attention", "residual1",
      "ffn", "moe", "residual2", "outputProjection", "output">>

\* Object.entries(COMPONENTS) of training-diagram.js, in order
TrainOrder ==
    <<"trainingData", "datasetPrep", "forwardPass", "lossFunction",
      "backpropagation", "optimizer", "sft", "preferenceTuning">>

\* MAIN_ARROWS of training-diagram.js
MAIN_ARROWS ==
    {<<"trainingData", "datasetPrep">>, <<"datasetPrep", "forwardPass">>,
     <<"forwardPass", "lossFunction">>, <<"lossFunction", "backpropagation">>,
     <<"backpropagation", "optimizer">>}

\* an svg with nothing in it
NoDrawing == [layout |-> <<>>, components |-> <<>>, connectors |-> 0]

\* A drawing is the layout it was drawn with, its component groups in
\* document order and the number of its line and path connectors.
\* renderDiagram of inference-diagram.js that leaves the side cache out of
\* a narrow drawing
infRenderDiagramDropsSideCache(layout) ==
    IF layout.mode = "narrow"
    THEN [layout |-> layout,
          components |-> <<"inputPrompt", "tokenize", "prefillPhase",
                           "autoregressiveLoop", "logits", "sampling",
                           "stopCondition", "detokenize">>,
          connectors |-> 2 + 1 + 2 + 1 + 1]
    ELSE [layout |-> layout,
          components |-> <<"inputPrompt", "tokenize", "prefillPhase",
                           "autoregressiveLoop", "logits", "sampling",
                           "stopCondition", "kvCache", "detokenize">>,
          connectors |-> 2 + 1 + 2 + 2 + 1 + 1]

\* renderDiagram of inference-diagram.js: three main boxes, the container,
\* the inner boxes with two lines and the loop path, the side cache with two
\* paths, detokenize, then two top-flow lines and the lines into and out of
\* the container
infRenderDiagram(layout) ==
    [layout |-> layout,
     components |-> <<"inputPrompt", "tokenize", "prefillPhase",
                      "autoregressiveLoop", "logits", "sampling",
                      "stopCondition", "kvCache", "detokenize">>,
     connectors |-> 2 + 1 + 2 + 2 + 1 + 1]

\* renderDiagram of diagram.js: every component (the moe box too, hidden),
\* then the arrows
archRenderDiagram(layout, arrowsDrawn) ==
    [layout |-> layout, components |-> ArchOrder,
     connectors |-> Cardinality(arrowsDrawn)]

\* renderDiagram of training-diagram.js: every component, the main arrows,
\* the loop path and the two lines of the post-training branch
trainRenderDiagram(layout) ==
    [layout |-> layout, components |-> TrainOrder,
     connectors |-> Cardinality(MAIN_ARROWS) + 1 + 2]

\* ---------------------------------------------------------------- DOM helpers
\* svg.remove(): the drawing of variant v leaves the document
RemoveSvg(w, v) ==
    LET w1 == [w EXCEPT !.svg[v] = FALSE, !.viewWidth[v] = 0,
                        !.emph[v] = {}, !.hovered[v] = NULL]
    IN IF v = "architecture"
       THEN [w1 EXCEPT !.hiddenClass = {}, !.opacityZero = {}, !.toggleText = "",
                       !.arrows = {}]
       ELSE w1


\* ARROWS of diagram.js
ARROWS ==
    {<<"input", "embeddings">>, <<"embeddings", "attention">>,
     <<"attention", "residual1">>, <<"residual1", "ffn">>,
     <<"ffn", "residual2">>, <<"residual2", "outputProjection">>,
     <<"outputProjection", "output">>}

\* COMPONENTS[key].hidden of diagram.js: the descriptor's flag, set at load
hiddenFlag(key) == key = "moe"

\* the arrows renderArrows appends: those with no endpoint flagged hidden
renderArrows ==
    {a \in ARROWS : ~(hiddenFlag(a[1]) \/ hiddenFlag(a[2]))}

\* a render pass into the cleared svg of variant v for the given width: the
\* layout, applyLayout and renderDiagram of the pass are made by renderPasses
RenderSvg(w, v, width) ==
    LET w1 == [w EXCEPT !.viewWidth[v] = width, !.emph[v] = {}, !.hovered[v] = NULL,
                        !.rendered = Append(@, <<v, width>>)]
    IN IF v = "architecture"
       THEN [w1 EXCEPT !.hiddenClass = {"moe"}, !.opacityZero = {},
                       !.toggleText = "-> MOE", !.arrows = renderArrows]
       ELSE w1

\* window.removeEventListener('resize', resizeHandler)
RemoveListener(w, v) ==
    [w EXCEPT !.winListeners[v] = IF @ > 0 THEN @ - 1 ELSE 0]

\* ---------------------------------------------------------------- diagram.js
\* destroyDiagram that forgets to reset currentHighlight
archDestroyDiagramKeepsHighlight(w) ==
    LET v == "architecture"
        w1 == IF w.resizeHandler[v]
              THEN [RemoveListener(w, v) EXCEPT !.resizeHandler[v] = FALSE]
              ELSE w
        w2 == IF w1.svg[v] THEN RemoveSvg(w1, v) ELSE w1
    IN [w2 EXCEPT !.onComponentClick[v] = NULL,
                  !.moeMode = FALSE]

\* destroyDiagram without `moeMode = false`
archDestroyDiagramKeepsMode(w) ==
    LET v == "architecture"
        w1 == IF w.resizeHandler[v]
              THEN [RemoveListener(w, v) EXCEPT !.resizeHandler[v] = FALSE]
              ELSE w
        w2 == IF w1.svg[v] THEN RemoveSvg(w1, v) ELSE w1
    IN [w2 EXCEPT !.currentHighlight[v] = NULL,
                  !.onComponentClick[v] = NULL]

archDestroyDiagram(w) ==
    LET v == "architecture"
        w1 == IF w.resizeHandler[v]
              THEN [RemoveListener(w, v) EXCEPT !.resizeHandler[v] = FALSE]
              ELSE w
        w2 == IF w1.svg[v] THEN RemoveSvg(w1, v) ELSE w1
    IN [w2 EXCEPT !.currentHighlight[v] = NULL,
                  !.onComponentClick[v] = NULL,
                  !.moeMode = FALSE]

applyMOEVisualState(w) ==
    IF ~w.svg["architecture"] THEN w
    ELSE IF w.moeMode
         THEN [w EXCEPT !.hiddenClass = {"ffn"}, !.opacityZero = {"ffn"},
                        !.toggleText = "<- FFN"]
         ELSE [w EXCEPT !.hiddenClass = {"moe"}, !.opacityZero = {"moe"},
                        !.toggleText = "-> MOE"]

\* highlightComponent that skips a component whose group is hidden
archHighlightComponentSkipsHidden(w, key) ==
    LET v == "architecture"
        prev == w.currentHighlight[v]
        w1 == IF prev # NULL /\ prev \in COMPONENTS(v)
              THEN IF w.svg[v] THEN [w EXCEPT !.emph[v] = @ \ {prev}] ELSE Throw(w)
              ELSE w
    IN IF w1.err THEN w1
       ELSE LET w2 == [w1 EXCEPT !.currentHighlight[v] = key]
            IN IF key \in COMPONENTS(v)
               THEN IF w2.svg[v]
                    THEN [w2 EXCEPT !.emph[v] =
                              @ \cup (({key} \cap Boxes(v)) \ w2.hiddenClass)]
                    ELSE Throw(w2)
               ELSE w2

archHighlightComponent(w, key) ==
    LET v == "architecture"
        prev == w.currentHighlight[v]
        \* remove previous highlight: svg.select on a null svg raises
        w1 == IF prev # NULL /\ prev \in COMPONENTS(v)
              THEN IF w.svg[v] THEN [w EXCEPT !.emph[v] = @ \ {prev}] ELSE Throw(w)
              ELSE w
    IN IF w1.err THEN w1
       ELSE LET w2 == [w1 EXCEPT !.currentHighlight[v] = key]
            IN IF key \in COMPONENTS(v)
               THEN IF w2.svg[v]
                    THEN [w2 EXCEPT !.emph[v] = @ \cup ({key} \cap Boxes(v))]
                    ELSE Throw(w2)
               ELSE w2

archClearHighlight(w) ==
    LET v == "architecture"
        cur == w.currentHighlight[v]
        w1 == IF cur # NULL /\ cur \in COMPONENTS(v)
              THEN IF w.svg[v] THEN [w EXCEPT !.emph[v] = @ \ {cur}] ELSE Throw(w)
              ELSE w
    IN IF w1.err THEN w1 ELSE [w1 EXCEPT !.currentHighlight[v] = NULL]

toggleMOE(w) ==
    applyMOEVisualState([w EXCEPT !.moeMode = ~@])

archInitDiagram(w, present, clickHandler) ==
    LET v == "architecture"
        w1 == [archDestroyDiagram(w) EXCEPT !.onComponentClick[v] = clickHandler]
        width == w.clientWidth
    IN IF ~present THEN w1
       ELSE LET w2 == RenderSvg([w1 EXCEPT !.svg[v] = TRUE], v, width)
                w3 == applyMOEVisualState(w2)
            IN [w3 EXCEPT !.resizeHandler[v] = TRUE,
                          !.winListeners[v] = @ + 1]

\* a resize handler that redraws without applyMOEVisualState
archResizeHandlerNoMOE(w) ==
    LET v == "architecture"
        newWidth == w.clientWidth
    IN IF ~w.svg[v] THEN Throw(w)
       ELSE LET w1 == RenderSvg(w, v, newWidth)
                cur == w1.currentHighlight[v]
            IN IF cur # NULL /\ cur \in COMPONENTS(v)
               THEN archHighlightComponent([w1 EXCEPT !.currentHighlight[v] = NULL], cur)
               ELSE w1

\* the closure registered by initDiagram
archResizeHandler(w) ==
    LET v == "architecture"
        newWidth == w.clientWidth
    IN IF ~w.svg[v] THEN Throw(w)
       ELSE LET w1 == applyMOEVisualState(RenderSvg(w, v, newWidth))
                cur == w1.currentHighlight[v]
            IN IF cur # NULL /\ cur \in COMPONENTS(v)
               THEN archHighlightComponent([w1 EXCEPT !.currentHighlight[v] = NULL], cur)
               ELSE w1

archHandleHover(w, key, isEnter) ==
    LET v == "architecture"
    IN IF ~w.svg[v] THEN Throw(w)
       ELSE IF isEnter
            THEN [w EXCEPT !.emph[v] = @ \cup {key}]
            ELSE IF w.currentHighlight[v] # key
                 THEN [w EXCEPT !.emph[v] = @ \ {key}]
                 ELSE w

\* ---------------------------------------------------------------- training-diagram.js
trainDestroyDiagram(w) ==
    LET v == "training"
        w1 == IF w.resizeHandler[v]
              THEN [RemoveListener(w, v) EXCEPT !.resizeHandler[v] = FALSE]
              ELSE w
        w2 == IF w1.svg[v] THEN RemoveSvg(w1, v) ELSE w1
    IN [w2 EXCEPT !.currentHighlight[v] = NULL]

trainHighlightComponent(w, key) ==
    LET v == "training"
        prev == w.currentHighlight[v]
    IN IF ~w.svg[v] THEN w
       ELSE LET w1 == IF prev # NULL /\ prev \in COMPONENTS(v)
                      THEN [w EXCEPT !.emph[v] = @ \ {prev}]
                      ELSE w
                w2 == [w1 EXCEPT !.currentHighlight[v] = key]
            IN IF key \in COMPONENTS(v)
               THEN [w2 EXCEPT !.emph[v] = @ \cup ({key} \cap Boxes(v))]
               ELSE w2

trainClearHighlight(w) ==
    LET v == "training"
        cur == w.currentHighlight[v]
    IN IF ~w.svg[v] \/ cur = NULL \/ cur \notin COMPONENTS(v)
       THEN [w EXCEPT !.currentHighlight[v] = NULL]
       ELSE [w EXCEPT !.emph[v] = @ \ {cur}, !.currentHighlight[v] = NULL]

\* initDiagram that does not call destroyDiagram first
trainInitDiagramNoDestroy(w, present, clickHandler) ==
    LET v == "training"
        w1 == [w EXCEPT !.onComponentClick[v] = clickHandler]
        width == w.clientWidth
    IN IF ~present THEN w1
       ELSE LET w2 == RenderSvg([w1 EXCEPT !.svg[v] = TRUE], v, width)
            IN [w2 EXCEPT !.resizeHandler[v] = TRUE,
                          !.winListeners[v] = @ + 1]

trainInitDiagram(w, present, clickHandler) ==
    LET v == "training"
        w1 == [trainDestroyDiagram(w) EXCEPT !.onComponentClick[v] = clickHandler]
        width == w.clientWidth
    IN IF ~present THEN w1
       ELSE LET w2 == RenderSvg([w1 EXCEPT !.svg[v] = TRUE], v, width)
            IN [w2 EXCEPT !.resizeHandler[v] = TRUE,
                          !.winListeners[v] = @ + 1]

trainResizeHandler(w) ==
    LET v == "training"
        newWidth == w.clientWidth
    IN IF ~w.svg[v] THEN Throw(w)
       ELSE LET w1 == RenderSvg(w, v, newWidth)
                cur == w1.currentHighlight[v]
            IN IF cur # NULL /\ cur \in COMPONENTS(v)
               THEN trainHighlightComponent([w1 EXCEPT !.currentHighlight[v] = NULL], cur)
               ELSE w1

trainHandleHover(w, key, isEnter) ==
    LET v == "training"
    IN IF ~w.svg[v] THEN w
       ELSE IF isEnter
            THEN [w EXCEPT !.emph[v] = @ \cup {key}]
            ELSE IF w.currentHighlight[v] # key
                 THEN [w EXCEPT !.emph[v] = @ \ {key}]
                 ELSE w

\* ---------------------------------------------------------------- inference-diagram.js
infDestroyDiagram(w) ==
    LET v == "inference"
        w1 == IF w.resizeHandler[v]
              THEN [RemoveListener(w, v) EXCEPT !.resizeHandler[v] = FALSE]
              ELSE w
        w2 == IF w1.svg[v] THEN RemoveSvg(w1, v) ELSE w1
    IN [w2 EXCEPT !.currentHighlight[v] = NULL]

\* highlightComponent that leaves the previous component's emphasis in place
infHighlightComponentKeepsPrevious(w, key) ==
    LET v == "inference"
    IN IF ~w.svg[v] THEN w
       ELSE LET w2 == [w EXCEPT !.currentHighlight[v] = key]
            IN IF key \in COMPONENTS(v)
               THEN [w2 EXCEPT !.emph[v] = @ \cup ({key} \cap Boxes(v))]
               ELSE w2

infHighlightComponent(w, key) ==
    LET v == "inference"
        prev == w.currentHighlight[v]
    IN IF ~w.svg[v] THEN w
       ELSE LET w1 == IF prev # NULL /\ prev \in COMPONENTS(v)
                      THEN [w EXCEPT !.emph[v] = @ \ {prev}]
                      ELSE w
                w2 == [w1 EXCEPT !.currentHighlight[v] = key]
            IN IF key \in COMPONENTS(v)
               THEN [w2 EXCEPT !.emph[v] = @ \cup ({key} \cap Boxes(v))]
               ELSE w2

infClearHighlight(w) ==
    LET v == "inference"
        cur == w.currentHighlight[v]
    IN IF ~w.svg[v] \/ cur = NULL \/ cur \notin COMPONENTS(v)
       THEN [w EXCEPT !.currentHighlight[v] = NULL]
       ELSE [w EXCEPT !.emph[v] = @ \ {cur}, !.currentHighlight[v] = NULL]

infInitDiagram(w, present, clickHandler) ==
    LET v == "inference"
        w1 == [infDestroyDiagram(w) EXCEPT !.onComponentClick[v] = clickHandler]
        width == w.clientWidth
    IN IF ~present THEN w1
       ELSE LET w2 == RenderSvg([w1 EXCEPT !.svg[v] = TRUE], v, width)
            IN [w2 EXCEPT !.resizeHandler[v] = TRUE,
                          !.winListeners[v] = @ + 1]

\* redraws, and does not touch currentHighlight
infResizeHandler(w) ==
    LET v == "inference"
        newWidth == w.clientWidth
    IN IF ~w.svg[v] THEN Throw(w)
       ELSE RenderSvg(w, v, newWidth)

infHandleHover(w, key, isEnter) ==
    LET v == "inference"
    IN IF ~w.svg[v] THEN w
       ELSE IF isEnter
            THEN [w EXCEPT !.emph[v] = @ \cup {key}]
            ELSE IF w.currentHighlight[v] # key
                 THEN [w EXCEPT !.emph[v] = @ \ {key}]
                 ELSE w

\* ---------------------------------------------------------------- module dispatch
\* SECTION_CONFIG[section].diagram.<function>
destroyDiagram(w, v) ==
    CASE v = "architecture" -> archDestroyDiagram(w)
      [] v = "training" -> trainDestroyDiagram(w)
      [] v = "inference" -> infDestroyDiagram(w)

initDiagram(w, v, present, clickHandler) ==
    CASE v = "architecture" -> archInitDiagram(w, present, clickHandler)
      [] v = "training" -> trainInitDiagram(w, present, clickHandler)
      [] v = "inference" -> infInitDiagram(w, present, clickHandler)

highlightComponent(w, v, key) ==
    CASE v = "architecture" -> archHighlightComponent(w, key)
      [] v = "training" -> trainHighlightComponent(w, key)
      [] v = "inference" -> infHighlightComponent(w, key)

clearHighlight(w, v) ==
    CASE v = "architecture" -> archClearHighlight(w)
      [] v = "training" -> trainClearHighlight(w)
      [] v = "inference" -> infClearHighlight(w)

handleHover(w, v, key, isEnter) ==
    CASE v = "architecture" -> archHandleHover(w, key, isEnter)
      [] v = "training" -> trainHandleHover(w, key, isEnter)
      [] v = "inference" -> infHandleHover(w, key, isEnter)

resizeHandlerOf(w, v) ==
    CASE v = "architecture" -> archResizeHandler(w)
      [] v = "training" -> trainResizeHandler(w)
      [] v = "inference" -> infResizeHandler(w)

\* Object.entries(COMPONENTS).find(comp.infoKey === infoKey)?.[0] || null:
\* the first component in declaration order with that info key
getComponentByInfoKey(v, infoKey) ==
    IF v = "architecture"
    THEN CASE infoKey = "tokenization" -> "input"
           [] infoKey = "residuals" -> "residual1"
           [] infoKey = "generation" -> "output"
           [] infoKey \in {"embeddings", "attention", "ffn", "moe", "outputProjection"} -> infoKey
           [] OTHER -> NULL
    ELSE IF infoKey \in COMPONENTS(v) THEN infoKey ELSE NULL


\* ---------------------------------------------------------------- app.js
Sections == {"architecture", "training", "inference"}

\* keys of SECTION_CONFIG[section].infoContent
InfoContent(section) ==
    CASE section = "architecture" ->
            {"tokenization", "embeddings", "attention", "residuals", "ffn", "moe",
             "outputProjection", "generation"}
      [] section = "training" -> TrainComponents
      [] section = "inference" -> InfComponents

\* the a.cross-section-link elements of an info content, as
\* <<data-section, data-info-key>>
CrossLinks(content) ==
    CASE content = <<"architecture", "tokenization">> ->
            {<<"training", "datasetPrep">>, <<"inference", "tokenize">>}
      [] content = <<"architecture", "outputProjection">> ->
            {<<"inference", "sampling">>}
      [] content = <<"architecture", "generation">> ->
            {<<"inference", "autoregressiveLoop">>}
      [] content = <<"training", "datasetPrep">> ->
            {<<"architecture", "tokenization">>}
      [] content = <<"training", "forwardPass">> ->
            {<<"architecture", "attention">>}
      [] content = <<"training", "preferenceTuning">> ->
            {<<"inference", "sampling">>}
      [] content = <<"inference", "tokenize">> ->
            {<<"architecture", "tokenization">>}
      [] OTHER -> {}

closeInfoPanel(w) ==
    LET w1 == [w EXCEPT !.infoPanelOpen = FALSE, !.currentInfoKey = NULL]
    IN IF w1.currentDiagramModule = NULL THEN w1
       ELSE clearHighlight(w1, w1.currentDiagramModule)

switchView(w, view) ==
    closeInfoPanel([w EXCEPT !.currentView = view])

highlightForInfoKey(w, infoKey) ==
    IF w.currentDiagramModule = NULL THEN w
    ELSE LET mappedKey == getComponentByInfoKey(w.currentDiagramModule, infoKey)
             keyToHighlight == IF mappedKey # NULL THEN mappedKey ELSE infoKey
         IN highlightComponent(w, w.currentDiagramModule, keyToHighlight)

\* openInfoPanel without its `if (!content) return`
openInfoPanelUnchecked(w, infoKey) ==
    highlightForInfoKey(
        [w EXCEPT !.currentInfoKey = infoKey, !.infoPanelOpen = TRUE,
                  !.panelContent = <<w.currentSection, infoKey>>], infoKey)

openInfoPanel(w, infoKey) ==
    IF infoKey \notin InfoContent(w.currentSection) THEN w
    ELSE highlightForInfoKey(
             [w EXCEPT !.currentInfoKey = infoKey, !.infoPanelOpen = TRUE,
                       !.panelContent = <<w.currentSection, infoKey>>], infoKey)

handleComponentClick(w, infoKey) ==
    IF infoKey # "" /\ infoKey \in InfoContent(w.currentSection)
    THEN openInfoPanel(w, infoKey)
    ELSE w

\* the closure setupCrossSectionLinks passes as afterRender (NULL: none passed)
afterRenderCall(w, section, afterRender) ==
    IF afterRender = NULL THEN w
    ELSE LET w1 == [w EXCEPT !.calls = Append(@, <<"afterRender", section>>)]
         IN IF afterRender \in InfoContent(section)
            THEN openInfoPanel(w1, afterRender)
            ELSE w1

switchSection(w, section, force, afterRender) ==
    IF section \notin Sections THEN w
    ELSE IF ~force /\ section = w.currentSection
    THEN afterRenderCall(w, section, afterRender)
    ELSE LET w1 == closeInfoPanel(w)
         IN IF w1.err THEN w1
            ELSE LET w2 == IF w1.currentDiagramModule = NULL THEN w1
                           ELSE destroyDiagram(w1, w1.currentDiagramModule)
                     renderToken == w2.sectionRenderToken + 1
                 IN [w2 EXCEPT !.currentSection = section,
                               !.sectionRenderToken = renderToken,
                               !.frames = Append(@, [renderToken |-> renderToken,
                                                     section |-> section,
                                                     afterRender |-> afterRender])]

\* the callback without its `renderToken !== sectionRenderToken` test
sectionFrameAlways(w, f) ==
    LET w1 == initDiagram([w EXCEPT !.currentDiagramModule = f.section],
                          f.section, TRUE, "handleComponentClick")
    IN afterRenderCall(w1, f.section, f.afterRender)

\* the callback switchSection hands to requestAnimationFrame
sectionFrame(w, f) ==
    IF f.renderToken # w.sectionRenderToken THEN w
    ELSE LET w1 == initDiagram([w EXCEPT !.currentDiagramModule = f.section],
                               f.section, TRUE, "handleComponentClick")
         IN afterRenderCall(w1, f.section, f.afterRender)

\* the listener without its isMOEMode() test
onTourShowMOEToggles(w) ==
    IF w.currentSection = "architecture" THEN toggleMOE(w) ELSE w

\* window 'tour:showMOE' listener
onTourShowMOE(w) ==
    IF w.currentSection = "architecture" /\ ~w.moeMode THEN toggleMOE(w) ELSE w

\* ---------------------------------------------------------------- click handlers
\* onComponentClick(comp.infoKey || key, comp)
invokeOnComponentClick(w, v, key) ==
    LET arg == IF InfoKey(v, key) # "" THEN InfoKey(v, key) ELSE key
        w1 == [w EXCEPT !.calls = Append(@, <<"onComponentClick", arg>>)]
    IN IF w.onComponentClick[v] = "handleComponentClick"
       THEN handleComponentClick(w1, arg)
       ELSE w1

\* handleClick without the early return for the toggle affordance
archHandleClickNoToggle(w, key, onToggle) ==
    LET w1 == archHighlightComponent(w, key)
    IN IF w1.err THEN w1
       ELSE IF w1.onComponentClick["architecture"] # NULL
            THEN invokeOnComponentClick(w1, "architecture", key)
            ELSE w1

\* onToggle: the event target is the toggle-indicator or the toggle-text
archHandleClick(w, key, onToggle) ==
    IF key = "ffn" /\ onToggle THEN toggleMOE(w)
    ELSE LET w1 == archHighlightComponent(w, key)
         IN IF w1.err THEN w1
            ELSE IF w1.onComponentClick["architecture"] # NULL
                 THEN invokeOnComponentClick(w1, "architecture", key)
                 ELSE w1

trainHandleClick(w, key) ==
    LET w1 == trainHighlightComponent(w, key)
    IN IF w1.onComponentClick["training"] # NULL
       THEN invokeOnComponentClick(w1, "training", key)
       ELSE w1

infHandleClick(w, key) ==
    LET w1 == infHighlightComponent(w, key)
    IN IF w1.onComponentClick["inference"] # NULL
       THEN invokeOnComponentClick(w1, "inference", key)
       ELSE w1

handleClick(w, v, key, onToggle) ==
    CASE v = "architecture" -> archHandleClick(w, key, onToggle)
      [] v = "training" -> trainHandleClick(w, key)
      [] v = "inference" -> infHandleClick(w, key)

\* ---------------------------------------------------------------- tour.js
\* TOUR_STEPS[i].componentKey, i = 0..9
StepComponentKey ==
    <<"input", "embeddings", "attention", "residual1", "ffn", NULL,
      "outputProjection", "output", "moe", NULL>>

NumSteps == Len(StepComponentKey)

componentKeyOf(i) == StepComponentKey[i + 1]
\* TOUR_STEPS[i].action === 'showMOE'
hasShowMOE(i) == i = 8
\* TOUR_STEPS[i].isFinal
isFinal(i) == i = 9

\* document.querySelector(TOUR_STEPS[i].target) finds an element: the targets
\* are nodes of the architecture svg, but for the last step's demo button
targetPresent(w, i) == isFinal(i) \/ w.svg["architecture"]

\* positionElements(step): without a target the tooltip is centred and the
\* spotlight hidden
positionElements(w, i) ==
    [w EXCEPT !.spotlight = IF targetPresent(w, i) THEN "block" ELSE "none"]

\* showStep that leaves the highlight alone on a step without componentKey
showStepNoClear(w, index) ==
    IF index < 0 \/ index >= NumSteps THEN w
    ELSE LET w1 == positionElements([w EXCEPT !.currentStep = index], index)
             w2 == IF componentKeyOf(index) # NULL
                   THEN archHighlightComponent(w1, componentKeyOf(index))
                   ELSE w1
         IN IF w2.err THEN w2
            ELSE IF hasShowMOE(index) THEN onTourShowMOE(w2) ELSE w2

\* showStep whose range check admits index = steps.length: steps[index] is
\* undefined there and reading its title raises, after the cursor moved
showStepOffByOne(w, index) ==
    IF index < 0 \/ index > NumSteps THEN w
    ELSE LET w0 == [w EXCEPT !.currentStep = index]
             w1 == IF index = NumSteps THEN w0 ELSE positionElements(w0, index)
         IN IF index = NumSteps THEN Throw(w1)
            ELSE LET w2 == IF componentKeyOf(index) # NULL
                           THEN archHighlightComponent(w1, componentKeyOf(index))
                           ELSE archClearHighlight(w1)
                 IN IF w2.err THEN w2
                    ELSE IF hasShowMOE(index) THEN onTourShowMOE(w2) ELSE w2

showStep(w, index) ==
    IF index < 0 \/ index >= NumSteps THEN w
    ELSE LET w1 == positionElements([w EXCEPT !.currentStep = index], index)
             w2 == IF componentKeyOf(index) # NULL
                   THEN archHighlightComponent(w1, componentKeyOf(index))
                   ELSE archClearHighlight(w1)
         IN IF w2.err THEN w2
            ELSE IF hasShowMOE(index) THEN onTourShowMOE(w2) ELSE w2

tourStart(w) ==
    showStep([w EXCEPT !.active = TRUE, !.currentStep = 0,
                       !.overlayActive = TRUE, !.tooltipActive = TRUE], 0)

tourComplete(w) ==
    archClearHighlight([w EXCEPT !.active = FALSE, !.overlayActive = FALSE,
                                 !.tooltipActive = FALSE])

tourNext(w) ==
    IF w.currentStep >= NumSteps - 1 THEN tourComplete(w)
    ELSE showStep(w, w.currentStep + 1)

tourPrev(w) ==
    IF w.currentStep > 0 THEN showStep(w, w.currentStep - 1) ELSE w

goToStep(w, index) == showStep(w, index)

tourExit(w) ==
    LET w1 == archClearHighlight([w EXCEPT !.active = FALSE, !.overlayActive = FALSE,
                                           !.tooltipActive = FALSE])
    IN IF w1.err THEN w1
       ELSE IF w1.onExit # NULL
            THEN [w1 EXCEPT !.calls = Append(@, <<"onExit", NULL>>)]
            ELSE w1


\* ---------------------------------------------------------------- kv-cache-demo.js
\* CONFIG.maxTokens, CONFIG.kvDim
maxTokens == 8
kvDim == 6

SAMPLE_TOKENS == <<"The", "cat", "sat", "on", "the", "warm", "soft", "mat">>

\* handlePlay calls in flight at once
MaxTasks == 1

ZeroStats ==
    [withCache |-> [kComputations |-> 0, vComputations |-> 0, attentionOps |-> 0],
     withoutCache |-> [kComputations |-> 0, vComputations |-> 0, attentionOps |-> 0]]

\* new KVCacheDemoUI(...): the constructor's fields; this.mode is not set
KVConstructed ==
    /\ kvCurrentStep = 0
    /\ isPlaying = FALSE
    /\ kvMode = NULL
    /\ generatedTokens = <<>>
    /\ cache = 0
    /\ stats = ZeroStats
    /\ savings = [num |-> 0, den |-> 1, text |-> 0]
    /\ playText = ""
    /\ kvModalOpen = FALSE
    /\ kvTasks = <<>>
    /\ stepwise = TRUE

\* the demo object as a record
KVState ==
    [currentStep |-> kvCurrentStep, isPlaying |-> isPlaying, mode |-> kvMode,
     generatedTokens |-> generatedTokens, cache |-> cache, stats |-> stats,
     savings |-> savings, playText |-> playText, tasks |-> kvTasks,
     stepwise |-> stepwise]

KVCommit(k) ==
    /\ kvCurrentStep' = k.currentStep
    /\ isPlaying' = k.isPlaying
    /\ kvMode' = k.mode
    /\ generatedTokens' = k.generatedTokens
    /\ cache' = k.cache
    /\ stats' = k.stats
    /\ savings' = k.savings
    /\ playText' = k.playText
    /\ kvTasks' = k.tasks
    /\ stepwise' = k.stepwise

\* Number.prototype.toFixed(0) of num / den, for num >= 0 and den > 0
toFixed0(num, den) == (2 * num + den) \div (2 * den)

\* savingsPercent is kept as the fraction num / den
updateSavings(k) ==
    LET cachedTotal == k.stats.withCache.kComputations + k.stats.withCache.vComputations
        uncachedTotal == k.stats.withoutCache.kComputations
                           + k.stats.withoutCache.vComputations
    IN IF uncachedTotal > 0
       THEN [k EXCEPT !.savings = [num |-> (uncachedTotal - cachedTotal) * 100,
                                   den |-> uncachedTotal,
                                   text |-> toFixed0((uncachedTotal - cachedTotal) * 100,
                                                     uncachedTotal)]]
       ELSE [k EXCEPT !.savings = [num |-> 0, den |-> 1, text |-> 0]]

renderInitialState(k) == updateSavings(k)

\* generateNextToken that takes the sequence length before the new token
generateNextTokenBeginShortSeq(k) ==
    LET seqLen == k.currentStep
    IN [k EXCEPT
          !.generatedTokens = Append(@, SAMPLE_TOKENS[k.currentStep + 1]),
          !.stats.withCache.kComputations = @ + kvDim,
          !.stats.withCache.vComputations = @ + kvDim,
          !.stats.withCache.attentionOps = @ + k.currentStep + 1,
          !.stats.withoutCache.kComputations = @ + seqLen * kvDim,
          !.stats.withoutCache.vComputations = @ + seqLen * kvDim,
          !.stats.withoutCache.attentionOps = @ + seqLen,
          !.cache = @ + 1,
          !.stepwise = @ /\ k.tasks = <<>>]

\* generateNextToken up to the sleep(300) of animateTokenGeneration; callers
\* test currentStep < maxTokens first
generateNextTokenBegin(k) ==
    LET seqLen == k.currentStep + 1
    IN [k EXCEPT
          !.generatedTokens = Append(@, SAMPLE_TOKENS[k.currentStep + 1]),
          !.stats.withCache.kComputations = @ + kvDim,
          !.stats.withCache.vComputations = @ + kvDim,
          !.stats.withCache.attentionOps = @ + k.currentStep + 1,
          !.stats.withoutCache.kComputations = @ + seqLen * kvDim,
          !.stats.withoutCache.vComputations = @ + seqLen * kvDim,
          !.stats.withoutCache.attentionOps = @ + seqLen,
          !.cache = @ + 1,
          !.stepwise = @ /\ k.tasks = <<>>]

\* generateNextToken after the sleep
generateNextTokenEnd(k) ==
    updateSavings([k EXCEPT !.currentStep = @ + 1])

\* the handlePlay call suspends in a sleep
suspend(k, kind, pc) == [k EXCEPT !.tasks = Append(@, [kind |-> kind, pc |-> pc])]

\* the loop without the two assignments after it
continuousLoopLeavesFlag(k) ==
    IF k.isPlaying /\ k.currentStep < maxTokens
    THEN suspend(generateNextTokenBegin(k), "continuous", "anim")
    ELSE k

\* the while loop of handlePlay from its test on
continuousLoop(k) ==
    IF k.isPlaying /\ k.currentStep < maxTokens
    THEN suspend(generateNextTokenBegin(k), "continuous", "anim")
    ELSE [k EXCEPT !.isPlaying = FALSE, !.playText = "Play All"]

handlePlay(k) ==
    IF k.isPlaying
    THEN [k EXCEPT !.isPlaying = FALSE,
                   !.playText = IF k.mode = "step" THEN "Generate Next" ELSE "Play All"]
    ELSE IF k.mode = "continuous"
         THEN continuousLoop([k EXCEPT !.isPlaying = TRUE, !.playText = "Pause"])
         ELSE IF k.currentStep < maxTokens
              THEN suspend(generateNextTokenBegin(k), "step", "anim")
              ELSE k

kvReset(k) ==
    renderInitialState(
        [k EXCEPT !.isPlaying = FALSE, !.currentStep = 0, !.generatedTokens = <<>>,
                  !.cache = 0, !.stats = ZeroStats,
                  !.playText = IF k.mode = "step" THEN "Generate Next" ELSE "Play All",
                  !.stepwise = k.tasks = <<>>])

setMode(k, mode) ==
    [k EXCEPT !.mode = mode,
              !.playText = IF mode = "step" THEN "Generate Next" ELSE "Play All"]

\* init(): the markup is rebuilt, the fields are kept
kvInit(k) == renderInitialState([k EXCEPT !.playText = "Generate Next"])

RemoveAt(seq, i) == SubSeq(seq, 1, i - 1) \o SubSeq(seq, i + 1, Len(seq))

\* the timer of suspended call i fires and the call runs to its next sleep or
\* to its end
resumeTask(k, i) ==
    LET t == k.tasks[i]
        k0 == [k EXCEPT !.tasks = RemoveAt(@, i)]
    IN IF t.pc = "anim"
       THEN IF t.kind = "continuous"
            THEN suspend(generateNextTokenEnd(k0), "continuous", "sleep")
            ELSE generateNextTokenEnd(k0)
       ELSE continuousLoop(k0)

\* setTimeout order: sleep(300) and sleep(animationSpeed = 800) timers fire
\* in order of their due times, so a call resumes before every younger call
\* except that a younger sleep(300) may pass an older sleep(800)
CanFire(tasks, i) ==
    \A j \in 1 .. i - 1 : tasks[j].pc = "sleep" /\ tasks[i].pc = "anim"

\* ---------------------------------------------------------------- attention-demo.js
\* CONFIG
numLayers == 3
numHeads == 4
\* runAttentionDemo keeps the first tokenLimit tokens
tokenLimit == 10

\* --- input text: a sequence of characters, of word, blank or punctuation kind
WordChar == "w"
Blank == " "
Punct == "."
Alphabet == {WordChar, Blank, Punct}
MaxTextLen == 2

RECURSIVE Words(_)
\* n one-letter words separated by single blanks
Words(n) ==
    IF n = 0 THEN <<>>
    ELSE IF n = 1 THEN <<WordChar>>
    ELSE Words(n - 1) \o <<Blank, WordChar>>

\* values of #attention-input: every short text, and texts at and over the
\* token limit
TextInputs ==
    UNION {[1 .. n -> Alphabet] : n \in 0 .. MaxTextLen}
        \cup {Words(tokenLimit), Words(tokenLimit + 1)}

RECURSIVE trimStart(_)
trimStart(text) ==
    IF text # <<>> /\ Head(text) = Blank THEN trimStart(Tail(text)) ELSE text

RECURSIVE trimEnd(_)
trimEnd(text) ==
    IF text # <<>> /\ text[Len(text)] = Blank
    THEN trimEnd(SubSeq(text, 1, Len(text) - 1))
    ELSE text

\* String.prototype.trim
trim(text) == trimEnd(trimStart(text))

\* --- tokenizer.js
RECURSIVE splitWords(_, _)
\* the maximal runs of word characters of text, word being the run in progress
splitWords(text, word) ==
    LET done == IF word = <<>> THEN <<>> ELSE <<word>>
    IN  IF text = <<>> THEN done
        ELSE IF Head(text) \in {Blank, Punct}
             THEN done \o splitWords(Tail(text), <<>>)
             ELSE splitWords(Tail(text), Append(word, Head(text)))

\* tokenize(text): split on whitespace and punctuation, position from 0
tokenize(text) ==
    LET words == splitWords(text, <<>>)
    IN  [p \in 1 .. Len(words) |-> [text |-> words[p], position |-> p - 1]]

\* an embedding matrix is known by the tokens it was looked up for and the
\* sublayers applied to it since, each sublayer as <<name, layer>>
getEmbeddings(tokens) == [tokens |-> tokens, stages |-> <<>>]

\* --- math-utils.js
\* the mask value of applyCausalMask, below every score
NegInf == -1000

\* applyCausalMask(scores): entries [i][j] with j > i are masked
applyCausalMask(scores) ==
    [i \in DOMAIN scores |->
        [j \in DOMAIN scores[i] |-> IF j > i THEN NegInf ELSE scores[i][j]]]

RECURSIVE Sum(_)
Sum(seq) == IF seq = <<>> THEN 0 ELSE Head(seq) + Sum(Tail(seq))

RECURSIVE Pow2(_)
Pow2(k) == IF k = 0 THEN 1 ELSE 2 * Pow2(k - 1)

\* softmax(row) as exact fractions num / den. Scores are integers and the
\* exponential has base 2: entry j weighs 2^(row[j] - least unmasked score),
\* a masked entry weighs 0.
softmax(row) ==
    LET open == {j \in DOMAIN row : row[j] # NegInf}
        least == CHOOSE x \in {row[j] : j \in open} :
                     \A j \in open : x <= row[j]
        w == [j \in DOMAIN row |->
                 IF j \in open THEN Pow2(row[j] - least) ELSE 0]
        den == Sum(w)
    IN  [j \in DOMAIN row |-> [num |-> w[j], den |-> den]]

\* --- the simulator
\* weights = null: no object
NoWeights == [object |-> 0, layers |-> <<>>]

\* a null result: a result has at least one token
NoResult == [tokens |-> <<>>, layerResults |-> <<>>]

\* weights = null at module load; new AttentionDemoUI(containerId)
AttnConstructed ==
    /\ weights = NoWeights
    /\ built = 0
    /\ result = NoResult
    /\ currentLayer = 0
    /\ currentHead = 0
    /\ attnReady = FALSE
    /\ animating = FALSE
    /\ flowTasks = <<>>
    /\ flowLog = <<>>
    /\ interrupted = FALSE

\* the state of the module and of the AttentionDemoUI object
Attn ==
    [weights |-> weights, built |-> built, result |-> result,
     currentLayer |-> currentLayer, currentHead |-> currentHead,
     animating |-> animating, flowTasks |-> flowTasks, flowLog |-> flowLog]

\* the next state is a
AttnCommit(a) ==
    /\ weights' = a.weights
    /\ built' = a.built
    /\ result' = a.result
    /\ currentLayer' = a.currentLayer
    /\ currentHead' = a.currentHead
    /\ animating' = a.animating
    /\ flowTasks' = a.flowTasks
    /\ flowLog' = a.flowLog

\* the seed with the layer counted in hundreds, as the heads are
seedLayerHundreds(l, h, offset) == l * 100 + h * 100 + offset

\* randomMatrix(rows, cols, seed) is determined by its seed
seed(l, h, offset) == l * 1000 + h * 100 + offset

\* the weights object: per layer, the seeds of Wq, Wk, Wv of each head and of
\* Wo, W1, W2; object is its identity, the number of the construction
newWeights(object) ==
    [object |-> object,
     layers |-> [l \in 0 .. numLayers - 1 |->
        [Wq |-> [h \in 0 .. numHeads - 1 |-> seed(l, h, 1)],
         Wk |-> [h \in 0 .. numHeads - 1 |-> seed(l, h, 2)],
         Wv |-> [h \in 0 .. numHeads - 1 |-> seed(l, h, 3)],
         Wo |-> l * 1000 + 400,
         W1 |-> l * 1000 + 500,
         W2 |-> l * 1000 + 600]]]

\* initWeights without its guard
initWeightsAlways(a) ==
    [a EXCEPT !.weights = newWeights(a.built + 1), !.built = a.built + 1]

initWeights(a) ==
    IF a.weights # NoWeights THEN a
    ELSE [a EXCEPT !.weights = newWeights(a.built + 1), !.built = a.built + 1]

\* The scores Q K^T / sqrt(headDim) are reals fixed by the embedding and
\* weight tables. A run draws them from a family of integer patterns.
MaxPattern == 0
Patterns == 0 .. MaxPattern
score(pattern, l, h, i, j) ==
    (((pattern + 1) * i + (pattern + 2) * j + l + h) % 3) - 1

\* computeHeadAttention applying softmax to the unmasked scores
computeHeadAttentionUnmasked(n, l, h, pattern) ==
    LET scores == [i \in 1 .. n |-> [j \in 1 .. n |-> score(pattern, l, h, i, j)]]
    IN  [scores |-> scores,
         weights |-> [i \in 1 .. n |-> softmax(scores[i])]]

\* computeHeadAttention for n tokens with the matrices of layer l, head h
computeHeadAttention(n, l, h, pattern) ==
    LET scores == [i \in 1 .. n |-> [j \in 1 .. n |-> score(pattern, l, h, i, j)]]
        maskedScores == applyCausalMask(scores)
    IN  [scores |-> scores,
         weights |-> [i \in 1 .. n |-> softmax(maskedScores[i])]]

\* embeddings after a sublayer of layer l: the residual sum, normalised
sublayer(embeddings, name, l) ==
    [embeddings EXCEPT !.stages = Append(@, <<name, l>>)]

\* runMultiHeadAttention(embeddings, layerIdx): the state after it and its value
runMultiHeadAttention(a, embeddings, layerIdx, pattern) ==
    [a |-> initWeights(a),
     value |->
        [headResults |->
            [h \in 1 .. numHeads |->
                computeHeadAttention(Len(embeddings.tokens), layerIdx, h - 1, pattern)],
         afterAttention |-> sublayer(embeddings, "attention", layerIdx)]]

\* runFFN(embeddings, layerIdx)
runFFN(a, embeddings, layerIdx) ==
    [a |-> initWeights(a),
     value |-> [afterFFN |-> sublayer(embeddings, "ffn", layerIdx)]]

RECURSIVE runLayersStale(_, _, _, _, _)
\* the layer loop without the assignment to embeddings at its end
runLayersStale(a, embeddings, l, pattern, layerResults) ==
    IF l >= numLayers THEN [a |-> a, value |-> layerResults]
    ELSE LET attnResult == runMultiHeadAttention(a, embeddings, l, pattern)
             ffnResult == runFFN(attnResult.a, attnResult.value.afterAttention, l)
         IN  runLayersStale(ffnResult.a, embeddings, l + 1, pattern,
                 Append(layerResults,
                     [layer |-> l, inputEmbeddings |-> embeddings,
                      attention |-> attnResult.value, ffn |-> ffnResult.value,
                      outputEmbeddings |-> ffnResult.value.afterFFN]))

RECURSIVE runLayers(_, _, _, _, _)
\* the loop of runAttentionDemo from layer l on
runLayers(a, embeddings, l, pattern, layerResults) ==
    IF l >= numLayers THEN [a |-> a, value |-> layerResults]
    ELSE LET attnResult == runMultiHeadAttention(a, embeddings, l, pattern)
             ffnResult == runFFN(attnResult.a, attnResult.value.afterAttention, l)
         IN  runLayers(ffnResult.a, ffnResult.value.afterFFN, l + 1, pattern,
                 Append(layerResults,
                     [layer |-> l, inputEmbeddings |-> embeddings,
                      attention |-> attnResult.value, ffn |-> ffnResult.value,
                      outputEmbeddings |-> ffnResult.value.afterFFN]))

\* runAttentionDemo(text): the state after it and its value
runAttentionDemo(a, text, pattern) ==
    LET a1 == initWeights(a)
        all == tokenize(text)
        tokens == SubSeq(all, 1, IF Len(all) < tokenLimit THEN Len(all) ELSE tokenLimit)
    IN  IF Len(tokens) = 0 THEN [a |-> a1, value |-> NoResult]
        ELSE LET layers == runLayers(a1, getEmbeddings(tokens), 0, pattern, <<>>)
             IN  [a |-> layers.a,
                  value |-> [tokens |-> tokens, layerResults |-> layers.value]]

\* AttentionDemoUI.run() with value in #attention-input
attnRun(a, value, pattern) ==
    LET text == trim(value)
    IN  IF text = <<>> THEN a
        ELSE LET r == runAttentionDemo(a, text, pattern)
             IN  [r.a EXCEPT !.result = r.value]

selectLayer(a, layer) == [a EXCEPT !.currentLayer = layer]

selectHead(a, head) == [a EXCEPT !.currentHead = head]

\* the animateFlow call suspends in a sleep: after selectLayer(l) with h = -1,
\* after selectHead(h) otherwise
flowSleep(a, l, h) ==
    [a EXCEPT !.flowTasks = Append(@, [l |-> l, h |-> h]),
              !.flowLog = Append(@, <<l, h>>)]

\* animateFlow without the test of this.animating
animateFlowReentrant(a) ==
    IF a.result = NoResult THEN a
    ELSE flowSleep(selectLayer([a EXCEPT !.animating = TRUE, !.flowLog = <<>>], 0),
                   0, -1)

\* animateFlow up to its first sleep
animateFlow(a) ==
    IF a.result = NoResult \/ a.animating THEN a
    ELSE flowSleep(selectLayer([a EXCEPT !.animating = TRUE, !.flowLog = <<>>], 0),
                   0, -1)

\* the timer of suspended call i fires: the loops of animateFlow go on to
\* the next sleep, or to the end
resumeFlow(a, i) ==
    LET t == a.flowTasks[i]
        a0 == [a EXCEPT !.flowTasks = RemoveAt(@, i)]
    IN IF t.h + 1 < numHeads
       THEN flowSleep(selectHead(a0, t.h + 1), t.l, t.h + 1)
       ELSE IF t.l + 1 < numLayers
            THEN flowSleep(selectLayer(a0, t.l + 1), t.l + 1, -1)
            ELSE [a0 EXCEPT !.animating = FALSE]

\* getAttentionWeights(result, layerIdx, headIdx), for a result and a layer it has
getAttentionWeights(r, layerIdx, headIdx) ==
    r.layerResults[layerIdx + 1].attention.headResults[headIdx + 1].weights

\* renderDiagram(layout) of variant v
renderDiagram(v, layout) ==
    CASE v = "architecture" -> archRenderDiagram(layout, renderArrows)
      [] v = "training" -> trainRenderDiagram(layout)
      [] v = "inference" -> infRenderDiagram(layout)

\* The render passes of one handler, in order, from the component table y
\* and the drawings d: each pass computes its layout from the table as it
\* stands, the inference renderer applies it to the table, and the pass
\* draws into its svg.
RECURSIVE renderPasses(_, _, _)
renderPasses(passes, y, d) ==
    IF passes = <<>> THEN [componentY |-> y, drawn |-> d]
    ELSE LET v == Head(passes)[1]
             layout == layoutOf(v, y, Head(passes)[2])
         IN renderPasses(Tail(passes),
                         IF v = "inference" THEN applyLayout(y, layout) ELSE y,
                         [d EXCEPT ![v] = renderDiagram(v, layout)])

\* the next state is the world of the handler's return, with its render
\* passes made
Commit(world) ==
    \E w \in {world} :
    \E after \in {renderPasses(w.rendered, componentY, drawn)} :
        /\ svg' = w.svg
        /\ currentHighlight' = w.currentHighlight
        /\ onComponentClick' = w.onComponentClick
        /\ resizeHandler' = w.resizeHandler
        /\ moeMode' = w.moeMode
        /\ winListeners' = w.winListeners
        /\ clientWidth' = w.clientWidth
        /\ viewWidth' = w.viewWidth
        /\ emph' = w.emph
        /\ hovered' = w.hovered
        /\ hiddenClass' = w.hiddenClass
        /\ opacityZero' = w.opacityZero
        /\ toggleText' = w.toggleText
        /\ arrows' = w.arrows
        /\ currentStep' = w.currentStep
        /\ active' = w.active
        /\ overlayActive' = w.overlayActive
        /\ tooltipActive' = w.tooltipActive
        /\ onExit' = w.onExit
        /\ currentView' = w.currentView
        /\ currentSection' = w.currentSection
        /\ infoPanelOpen' = w.infoPanelOpen
        /\ currentInfoKey' = w.currentInfoKey
        /\ currentDiagramModule' = w.currentDiagramModule
        /\ sectionRenderToken' = w.sectionRenderToken
        /\ frames' = w.frames
        /\ panelContent' = w.panelContent
        /\ spotlight' = w.spotlight
        /\ componentY' = after.componentY
        /\ drawn' = [v \in Variants |->
                     IF w.svg[v] THEN after.drawn[v] ELSE NoDrawing]
        /\ err' = w.err
        /\ calls' = w.calls
        /\ UNCHANGED kvVars
        /\ UNCHANGED attnVars

\* ---------------------------------------------------------------- observation
Observe(op, v, arg) ==
    lastOp' = [op |-> op, v |-> v, arg |-> arg,
               again |-> /\ op \in {"destroyDiagram", "initDiagram"}
                         /\ lastOp.op = op
                         /\ lastOp.v = v]

\* groups the pointer can reach: drawn, and not of class 'hidden'
Interactive(v, key) ==
    /\ svg[v]
    /\ v = "architecture" => key \notin hiddenClass

\* ---------------------------------------------------------------- DOM events
\* click on a component group, outside the toggle affordance
ComponentClick ==
    \E v \in Variants : \E key \in Clickable(v) :
        /\ Interactive(v, key)
        /\ Commit(handleClick(Fresh, v, key, FALSE))
        /\ Observe("click", v, key)
        /\ UNCHANGED <<tourScript, dut>>

\* click on the toggle-indicator or toggle-text of the FFN box
ToggleClick ==
    /\ Interactive("architecture", "ffn")
    /\ Commit(handleClick(Fresh, "architecture", "ffn", TRUE))
    /\ Observe("toggleClick", "architecture", "ffn")
    /\ UNCHANGED <<tourScript, dut>>

MouseEnter ==
    \E v \in Variants : \E key \in Boxes(v) :
        /\ Interactive(v, key)
        /\ hovered[v] = NULL
        /\ LET w == handleHover(Fresh, v, key, TRUE)
           IN Commit([w EXCEPT !.hovered[v] = key])
        /\ Observe("mouseenter", v, key)
        /\ UNCHANGED <<tourScript, dut>>

MouseLeave ==
    \E v \in Variants :
        /\ svg[v]
        /\ hovered[v] # NULL
        /\ LET w == handleHover(Fresh, v, hovered[v], FALSE)
           IN Commit([w EXCEPT !.hovered[v] = NULL])
        /\ Observe("mouseleave", v, hovered[v])
        /\ UNCHANGED <<tourScript, dut>>

\* one registered listener runs; an exception in it does not stop the others
RunListener(w, v) ==
    IF w.winListeners[v] = 0 THEN w
    ELSE LET r == resizeHandlerOf([w EXCEPT !.err = FALSE], v)
         IN [r EXCEPT !.err = r.err \/ w.err]

\* the window is resized: the container gets width cw, every listener runs
\* (observed as <<width before, width after>>)
WindowResize ==
    \E cw \in Widths :
        /\ LET w0 == [Fresh EXCEPT !.clientWidth = cw]
               w1 == RunListener(w0, "architecture")
               w2 == RunListener(w1, "training")
               w3 == RunListener(w2, "inference")
           IN Commit(w3)
        /\ Observe("resize", NULL, <<clientWidth, cw>>)
        /\ UNCHANGED <<tourScript, dut>>

\* ---------------------------------------------------------------- application
\* keys an info-panel request is made with: one that the architecture
\* section has, one that only training and one that only inference has, a
\* key no section has, and the empty key
RequestKeys == {"tokenization", "datasetPrep", "sampling", UnknownKey, ""}

\* an info-panel request: the component click callback, or openInfoPanel,
\* called with any key
InfoRequest ==
    \E infoKey \in RequestKeys :
        \/ /\ Commit(handleComponentClick(Fresh, infoKey))
           /\ Observe("infoRequest", NULL, <<"handleComponentClick", infoKey>>)
           /\ UNCHANGED <<tourScript, dut>>
        \/ /\ Commit(openInfoPanel(Fresh, infoKey))
           /\ Observe("infoRequest", NULL, <<"openInfoPanel", infoKey>>)
           /\ UNCHANGED <<tourScript, dut>>

\* section tab: the section switcher's onChange
TabClick ==
    \E section \in Sections :
        /\ sectionRenderToken < MaxRenderToken
        /\ Commit(switchSection(Fresh, section, FALSE, NULL))
        /\ Observe("switchSection", NULL, section)
        /\ UNCHANGED <<tourScript, dut>>

\* click on, or keyboard activation of, a cross-section link. Its listener
\* is on the link for as long as the content is in the panel: closeInfoPanel
\* takes the class 'open' off the panel and leaves its content in place.
CrossLinkClick ==
    \E link \in CrossLinks(panelContent) :
        /\ link[1] = currentSection \/ sectionRenderToken < MaxRenderToken
        /\ Commit(switchSection(Fresh, link[1], FALSE, link[2]))
        /\ Observe("crossLink", NULL, link[1])
        /\ UNCHANGED <<tourScript, dut>>

\* the two section-switching events, up to MaxSwitchToken switches
TabClickDeep ==
    \E section \in Sections :
        /\ sectionRenderToken < MaxSwitchToken
        /\ Commit(switchSection(Fresh, section, FALSE, NULL))
        /\ Observe("switchSection", NULL, section)
        /\ UNCHANGED <<tourScript, dut>>

CrossLinkClickDeep ==
    \E link \in CrossLinks(panelContent) :
        /\ link[1] = currentSection \/ sectionRenderToken < MaxSwitchToken
        /\ Commit(switchSection(Fresh, link[1], FALSE, link[2]))
        /\ Observe("crossLink", NULL, link[1])
        /\ UNCHANGED <<tourScript, dut>>

\* the data-view values of the navigation links: the home view and one other
\* (switchView compares the value with ids only)
Views == {"home", "guide"}

\* click on a .nav-link
NavClick ==
    \E view \in Views :
        /\ Commit(switchView(Fresh, view))
        /\ Observe("switchView", NULL, view)
        /\ UNCHANGED <<tourScript, dut>>

\* click on .panel-close, or Escape while the panel is open
PanelClose ==
    /\ infoPanelOpen
    /\ Commit(closeInfoPanel(Fresh))
    /\ Observe("closeInfoPanel", NULL, NULL)
    /\ UNCHANGED <<tourScript, dut>>

\* the browser runs the oldest pending animation-frame callback (observed
\* with the request it was made for)
AnimationFrame ==
    /\ frames # <<>>
    /\ Commit(sectionFrame([Fresh EXCEPT !.frames = Tail(@)], Head(frames)))
    /\ Observe("frame", NULL, Head(frames))
    /\ UNCHANGED <<tourScript, dut>>

\* .tour-start-btn: switchView('home'); startTour()
TourButtonClick ==
    /\ LET w1 == switchView(Fresh, "home")
           w2 == IF w1.err THEN w1 ELSE tourStart(w1)
       IN /\ Commit(w2)
          /\ tourScript' = IF w1.err THEN -1 ELSE 0
    /\ Observe("tourButton", NULL, NULL)
    /\ UNCHANGED dut

\* ---------------------------------------------------------------- tour calls
TourStart ==
    /\ Commit(tourStart(Fresh))
    /\ tourScript' = 0
    /\ Observe("start", NULL, NULL)
    /\ UNCHANGED dut

TourNext ==
    /\ Commit(tourNext(Fresh))
    /\ tourScript' = IF tourScript >= 0 /\ tourScript < NumSteps THEN tourScript + 1 ELSE -1
    /\ Observe("next", NULL, NULL)
    /\ UNCHANGED dut

TourPrev ==
    /\ Commit(tourPrev(Fresh))
    /\ tourScript' = -1
    /\ Observe("prev", NULL, NULL)
    /\ UNCHANGED dut

TourGoToStep ==
    \E index \in -1 .. NumSteps :
        /\ Commit(goToStep(Fresh, index))
        /\ tourScript' = -1
        /\ Observe("goToStep", NULL, index)
        /\ UNCHANGED dut

TourExit ==
    /\ Commit(tourExit(Fresh))
    /\ tourScript' = -1
    /\ Observe("exit", NULL, NULL)
    /\ UNCHANGED dut

\* ---------------------------------------------------------------- renderer calls
ApiInitDiagram ==
    \E present \in BOOLEAN : \E clickHandler \in {NULL, "probe"} :
        /\ dut # NULL
        /\ Commit(initDiagram(Fresh, dut, present, clickHandler))
        /\ Observe("initDiagram", dut, present)
        /\ UNCHANGED <<tourScript, dut>>

ApiDestroyDiagram ==
    /\ dut # NULL
    /\ Commit(destroyDiagram(Fresh, dut))
    /\ Observe("destroyDiagram", dut, NULL)
    /\ UNCHANGED <<tourScript, dut>>

ApiHighlightComponent ==
    \E key \in COMPONENTS(dut) \cup {UnknownKey} :
        /\ dut # NULL
        /\ Commit(highlightComponent(Fresh, dut, key))
        /\ Observe("highlightComponent", dut, key)
        /\ UNCHANGED <<tourScript, dut>>

ApiClearHighlight ==
    /\ dut # NULL
    /\ Commit(clearHighlight(Fresh, dut))
    /\ Observe("clearHighlight", dut, NULL)
    /\ UNCHANGED <<tourScript, dut>>

ApiToggleMOE ==
    /\ dut = "architecture"
    /\ Commit(toggleMOE(Fresh))
    /\ Observe("toggleMOE", dut, NULL)
    /\ UNCHANGED <<tourScript, dut>>

\* ---------------------------------------------------------------- KV-cache modal
\* everything outside the KV-cache demo stays as it is
KVFrame ==
    UNCHANGED <<svg, currentHighlight, onComponentClick, resizeHandler, moeMode,
                winListeners, clientWidth, viewWidth, emph, hovered,
                hiddenClass, opacityZero, toggleText, arrows,
                currentStep, active, overlayActive, tooltipActive, onExit,
                currentView, currentSection, infoPanelOpen, currentInfoKey,
                currentDiagramModule, sectionRenderToken, frames,
                panelContent, spotlight, componentY, drawn,
                weights, built, result, currentLayer, currentHead, attnReady,
                animating, flowTasks, flowLog, interrupted,
                err, calls, tourScript, dut>>

\* .demo-btn[data-demo=kvcache]: openModal('kvcache-modal'); kvCacheDemo.init()
KVDemoButton ==
    /\ ~kvModalOpen
    /\ KVCommit(kvInit(KVState))
    /\ kvModalOpen' = TRUE
    /\ Observe("kvOpen", NULL, NULL)
    /\ KVFrame

\* .modal-close of the KV-cache modal: closeModal('kvcache-modal'), where
\* kvCacheDemo?.stopPlayback?.() finds no such method and does nothing
KVModalClose ==
    /\ kvModalOpen
    /\ KVCommit(KVState)
    /\ kvModalOpen' = FALSE
    /\ Observe("closeModal", NULL, NULL)
    /\ KVFrame

\* #play-btn
KVPlayClick ==
    /\ kvModalOpen
    /\ isPlaying \/ Len(kvTasks) < MaxTasks
    /\ KVCommit(handlePlay(KVState))
    /\ UNCHANGED kvModalOpen
    /\ Observe("kvPlay", NULL, NULL)
    /\ KVFrame

\* calls of handlePlay that may be suspended at once where clicks on play
\* arrive at any moment
MaxPending == 2

\* #play-btn, clicked also while earlier calls are suspended in a sleep
KVPlayClickAnyTime ==
    /\ kvModalOpen
    /\ isPlaying \/ Len(kvTasks) < MaxPending
    /\ KVCommit(handlePlay(KVState))
    /\ UNCHANGED kvModalOpen
    /\ Observe("kvPlay", NULL, NULL)
    /\ KVFrame

\* #play-btn, clicked only while no call of handlePlay is in progress
KVPlayClickIdle ==
    /\ kvModalOpen
    /\ ~isPlaying
    /\ kvTasks = <<>>
    /\ KVCommit(handlePlay(KVState))
    /\ UNCHANGED kvModalOpen
    /\ Observe("kvPlay", NULL, NULL)
    /\ KVFrame

\* #reset-kv-btn
KVResetClick ==
    /\ kvModalOpen
    /\ KVCommit(kvReset(KVState))
    /\ UNCHANGED kvModalOpen
    /\ Observe("kvReset", NULL, NULL)
    /\ KVFrame

\* #step-btn, #continuous-btn
KVModeClick ==
    \E mode \in {"step", "continuous"} :
        /\ kvModalOpen
        /\ KVCommit(setMode(KVState, mode))
        /\ UNCHANGED kvModalOpen
        /\ Observe("kvMode", NULL, mode)
        /\ KVFrame

\* a sleep() timer fires
KVTimer ==
    \E i \in 1 .. Len(kvTasks) :
        /\ CanFire(kvTasks, i)
        /\ KVCommit(resumeTask(KVState, i))
        /\ UNCHANGED kvModalOpen
        /\ Observe("kvTimer", NULL, kvTasks[i].kind)
        /\ KVFrame

\* ---------------------------------------------------------------- attention modal
\* .demo-btn[data-demo=attention]: openModal('attention-modal'); attentionDemo.init()
AttnDemoButton ==
    /\ ~attnReady
    /\ attnReady' = TRUE
    /\ UNCHANGED <<weights, built, result, currentLayer, currentHead,
                   animating, flowTasks, flowLog, interrupted>>
    /\ Observe("attnOpen", NULL, NULL)
    /\ UNCHANGED <<svg, currentHighlight, onComponentClick, resizeHandler, moeMode,
                   winListeners, clientWidth, viewWidth, emph, hovered,
                   hiddenClass, opacityZero, toggleText, arrows,
                   currentStep, active, overlayActive, tooltipActive, onExit,
                   currentView, currentSection, infoPanelOpen, currentInfoKey,
                   currentDiagramModule, sectionRenderToken, frames,
                   panelContent, spotlight, componentY, drawn,
                   err, calls, tourScript, dut>>
    /\ UNCHANGED kvVars

\* everything but the attention demo's own state and lastOp stays as it is
AttnOnly ==
    /\ UNCHANGED <<svg, currentHighlight, onComponentClick, resizeHandler, moeMode,
                   winListeners, clientWidth, viewWidth, emph, hovered,
                   hiddenClass, opacityZero, toggleText, arrows,
                   currentStep, active, overlayActive, tooltipActive, onExit,
                   currentView, currentSection, infoPanelOpen, currentInfoKey,
                   currentDiagramModule, sectionRenderToken, frames,
                   panelContent, spotlight, componentY, drawn,
                   err, calls, tourScript, dut>>
    /\ UNCHANGED kvVars
    /\ UNCHANGED attnReady

\* #run-attention click, or Enter in #attention-input
AttnRunClick ==
    /\ attnReady
    /\ \E value \in TextInputs, pattern \in Patterns :
          /\ AttnCommit(attnRun(Attn, value, pattern))
          /\ interrupted' = (interrupted \/ animating)
          /\ Observe("attnRun", NULL, value)
    /\ AttnOnly

\* click on a layer button
AttnLayerClick ==
    /\ attnReady
    /\ \E l \in 0 .. numLayers - 1 :
          /\ AttnCommit(selectLayer(Attn, l))
          /\ interrupted' = (interrupted \/ animating)
          /\ Observe("selectLayer", NULL, l)
    /\ AttnOnly

\* click on a head button
AttnHeadClick ==
    /\ attnReady
    /\ \E h \in 0 .. numHeads - 1 :
          /\ AttnCommit(selectHead(Attn, h))
          /\ interrupted' = (interrupted \/ animating)
          /\ Observe("selectHead", NULL, h)
    /\ AttnOnly

\* values of #attention-input where the animation is explored: empty, one
\* word, and one that yields no token
FlowTexts == {<<>>, <<WordChar>>, <<Punct>>}

\* #run-attention click with one of these values
AttnRunShort ==
    /\ attnReady
    /\ \E value \in FlowTexts :
          /\ AttnCommit(attnRun(Attn, value, 0))
          /\ interrupted' = (interrupted \/ animating)
          /\ Observe("attnRun", NULL, value)
    /\ AttnOnly

\* calls of animateFlow that may be suspended at once
MaxFlows == 2

\* animateFlow(): #animate-btn click, or a direct call
AnimateClick ==
    /\ attnReady
    /\ Len(flowTasks) < MaxFlows
    /\ AttnCommit(animateFlow(Attn))
    /\ interrupted' = (interrupted /\ animating)
    /\ Observe("animateFlow", NULL, animating)
    /\ AttnOnly

\* a sleep() timer of animateFlow fires
FlowTimer ==
    /\ \E i \in 1 .. Len(flowTasks) :
          /\ AttnCommit(resumeFlow(Attn, i))
          /\ Observe("flowTimer", NULL, flowTasks[i])
    /\ UNCHANGED interrupted
    /\ AttnOnly

\* ---------------------------------------------------------------- specifications
\* the modules as loaded, before any function has run
ModuleLoad ==
    /\ svg = [v \in Variants |-> FALSE]
    /\ currentHighlight = [v \in Variants |-> NULL]
    /\ onComponentClick = [v \in Variants |-> NULL]
    /\ resizeHandler = [v \in Variants |-> FALSE]
    /\ moeMode = FALSE
    /\ winListeners = [v \in Variants |-> 0]
    /\ viewWidth = [v \in Variants |-> 0]
    /\ emph = [v \in Variants |-> {}]
    /\ hovered = [v \in Variants |-> NULL]
    /\ hiddenClass = {}
    /\ opacityZero = {}
    /\ toggleText = ""
    /\ arrows = {}
    /\ panelContent = <<>>
    /\ spotlight = ""
    /\ componentY = InferenceY
    /\ drawn = [v \in Variants |-> NoDrawing]
    /\ currentStep = 0
    /\ active = FALSE
    /\ overlayActive = FALSE
    /\ tooltipActive = FALSE
    /\ currentView = "home"
    /\ currentSection = "architecture"
    /\ infoPanelOpen = FALSE
    /\ currentInfoKey = NULL
    /\ currentDiagramModule = NULL
    /\ err = FALSE
    /\ calls = <<>>
    /\ lastOp = [op |-> "load", v |-> NULL, arg |-> NULL, again |-> FALSE]
    /\ tourScript = -1
    /\ KVConstructed
    /\ AttnConstructed

\* the page after init(): switchSection(currentSection, {force: true}) has
\* requested the first frame.  The tour, the section tabs and the MOE toggle
\* are driven; the container keeps one width.
Init ==
    /\ ModuleLoad
    /\ onExit \in {NULL, "probe"}
    /\ sectionRenderToken = 1
    /\ frames = <<[renderToken |-> 1, section |-> "architecture", afterRender |-> NULL]>>
    /\ dut = NULL
    /\ clientWidth = WidthLarge

Next ==
    \/ TabClick
    \/ AnimationFrame
    \/ TourButtonClick
    \/ TourStart
    \/ TourNext
    \/ TourPrev
    \/ TourGoToStep
    \/ TourExit
    \/ ToggleClick

Spec == Init /\ [][Next]_vars

\* one renderer module driven through its exported functions and its DOM events
InitDiagram ==
    /\ ModuleLoad
    /\ onExit = NULL
    /\ sectionRenderToken = 0
    /\ frames = <<>>
    /\ dut \in Variants
    /\ clientWidth \in Widths

NextDiagram ==
    \/ ApiInitDiagram
    \/ ApiDestroyDiagram
    \/ ApiHighlightComponent
    \/ ApiClearHighlight
    \/ ApiToggleMOE
    \/ ComponentClick
    \/ ToggleClick
    \/ MouseEnter
    \/ MouseLeave
    \/ WindowResize

SpecDiagram == InitDiagram /\ [][NextDiagram]_vars

\* one renderer module in a container of any width up to MaxWidth
InitLayout ==
    /\ ModuleLoad
    /\ onExit = NULL
    /\ sectionRenderToken = 0
    /\ frames = <<>>
    /\ dut \in Variants
    /\ clientWidth \in LayoutWidths

NextLayout ==
    \/ ApiInitDiagram
    \/ WindowResize

SpecLayout == InitLayout /\ [][NextLayout]_vars

\* section tabs, component clicks and cross-section links on the page after
\* init()
InitSections ==
    /\ Init
    /\ onExit = NULL

NextSections ==
    \/ TabClick
    \/ AnimationFrame
    \/ ComponentClick
    \/ CrossLinkClick

SpecSections == InitSections /\ [][NextSections]_vars

\* the same page, explored one section switch further
NextLatest ==
    \/ TabClickDeep
    \/ AnimationFrame
    \/ ComponentClick
    \/ CrossLinkClickDeep

SpecLatest == InitSections /\ [][NextLatest]_vars

\* the same page, with info-panel requests for arbitrary keys as well
NextRequests ==
    \/ TabClick
    \/ AnimationFrame
    \/ ComponentClick
    \/ CrossLinkClick
    \/ InfoRequest

SpecRequests == InitSections /\ [][NextRequests]_vars

\* the same page with its navigation links and the panel's close button
NextPanel ==
    \/ TabClickDeep
    \/ AnimationFrame
    \/ ComponentClick
    \/ CrossLinkClickDeep
    \/ NavClick
    \/ PanelClose

SpecPanel == InitSections /\ [][NextPanel]_vars

\* the KV-cache demo and its modal on the loaded page
InitKV ==
    /\ ModuleLoad
    /\ onExit = NULL
    /\ sectionRenderToken = 0
    /\ frames = <<>>
    /\ dut = NULL
    /\ clientWidth = WidthLarge

NextKV ==
    \/ KVDemoButton
    \/ KVModalClose
    \/ KVPlayClick
    \/ KVResetClick
    \/ KVModeClick
    \/ KVTimer

SpecKV == InitKV /\ [][NextKV]_vars

\* the KV-cache demo driven by its play button and its mode buttons only
NextKVPlay ==
    \/ KVDemoButton
    \/ KVModeClick
    \/ KVPlayClickAnyTime
    \/ KVTimer

SpecKVPlay == InitKV /\ [][NextKVPlay]_vars

\* the KV-cache demo left alone while it plays: play is clicked only when
\* nothing is in progress, and every pending timer fires in the end
NextPlayback ==
    \/ KVDemoButton
    \/ KVModeClick
    \/ KVPlayClickIdle
    \/ KVTimer

SpecPlayback == InitKV /\ [][NextPlayback]_vars /\ WF_vars(KVTimer)

\* the attention demo and its modal on the loaded page
InitAttention == InitKV

NextAttention ==
    \/ AttnDemoButton
    \/ AttnRunClick
    \/ AttnLayerClick
    \/ AttnHeadClick

SpecAttention == InitAttention /\ [][NextAttention]_vars

\* the attention demo with its animation
NextFlow ==
    \/ AttnDemoButton
    \/ AttnRunShort
    \/ AttnLayerClick
    \/ AttnHeadClick
    \/ AnimateClick
    \/ FlowTimer

SpecFlow == InitAttention /\ [][NextFlow]_vars

\* ---------------------------------------------------------------- properties
\* everything the program itself holds: vars without the observation variables
programVars ==
    <<svg, currentHighlight, onComponentClick, resizeHandler, moeMode,
      winListeners, clientWidth, viewWidth, emph, hovered,
      hiddenClass, opacityZero, toggleText, arrows,
      currentStep, active, overlayActive, tooltipActive, onExit,
      currentView, currentSection, infoPanelOpen, currentInfoKey,
      currentDiagramModule, sectionRenderToken, frames, panelContent,
      spotlight, componentY, drawn>>

\* no architecture component is the current highlight or carries its emphasis
NoArchHighlight ==
    /\ currentHighlight["architecture"] = NULL
    /\ emph["architecture"] = {}

\* C1: after start() and exactly 9 next() calls on the 10-step sequence the
\* tour is active with its cursor on index 9, the step marked isFinal; after
\* one more next() the tour is inactive, overlay and tooltip are hidden and
\* no diagram component is highlighted.
TourRunsToCompletion ==
    /\ tourScript = NumSteps - 1 =>
           active /\ currentStep = NumSteps - 1 /\ isFinal(currentStep)
    /\ tourScript = NumSteps =>
           ~active /\ ~overlayActive /\ ~tooltipActive /\ NoArchHighlight

\* C2: currentStep stays within 0..N-1 whatever start/next/prev/goToStep/exit
\* calls are made; start() sets it to 0 and activates the tour; prev() at
\* step 0 changes nothing; next() below the last step advances by exactly
\* one; goToStep(i) with i outside 0..N-1 changes nothing.
CursorInRange == currentStep \in 0 .. NumSteps - 1

CursorStep ==
    /\ lastOp'.op = "start" => currentStep' = 0 /\ active'
    /\ lastOp'.op = "prev" /\ currentStep = 0 => UNCHANGED programVars
    /\ lastOp'.op = "next" /\ currentStep < NumSteps - 1 =>
           currentStep' = currentStep + 1
    /\ lastOp'.op = "goToStep" /\ lastOp'.arg \notin 0 .. NumSteps - 1 =>
           UNCHANGED programVars

CursorBounds == CursorInRange /\ [][CursorInRange' /\ CursorStep]_vars

\* goToStep(N) was called with the active tour on its last step
CursorBoundsWitness ==
    /\ lastOp.op = "goToStep"
    /\ lastOp.arg = NumSteps
    /\ active
    /\ currentStep = NumSteps - 1

\* C3: exit() called while the tour is active, at any step, in any section
\* and in either FFN or MOE mode, raises nothing, leaves the tour inactive
\* with overlay and tooltip hidden and no component highlighted, and invokes
\* the exit callback if one is set.
ExitStep ==
    lastOp'.op = "exit" /\ active =>
        /\ ~err'
        /\ ~active' /\ ~overlayActive' /\ ~tooltipActive'
        /\ NoArchHighlight'
        /\ onExit # NULL => calls' = <<(<<"onExit", NULL>>)>>

ExitAlwaysClean == [][ExitStep]_vars

\* C4: destroyDiagram() of each renderer raises nothing and leaves no resize
\* listener, no svg, no highlight and (architecture) MOE mode off, whether it
\* is the first call after load or follows another destroyDiagram(); in both
\* of those cases it changes nothing.
DestroyStep ==
    lastOp'.op = "destroyDiagram" =>
        LET v == lastOp'.v
        IN /\ ~err'
           /\ winListeners'[v] = 0 /\ ~resizeHandler'[v]
           /\ ~svg'[v] /\ viewWidth'[v] = 0
           /\ currentHighlight'[v] = NULL /\ emph'[v] = {}
           /\ v = "architecture" => ~moeMode'
           /\ lastOp'.again \/ lastOp.op = "load" => UNCHANGED programVars

DestroyIdempotent == [][DestroyStep]_vars

\* the inference renderer, initialized earlier with a click callback, has
\* been destroyed twice in a row
DestroyIdempotentWitness ==
    /\ lastOp.op = "destroyDiagram"
    /\ lastOp.again
    /\ lastOp.v = "inference"
    /\ onComponentClick["inference"] = "probe"
    /\ ~svg["inference"]
    /\ ~err

\* C5: each renderer has at most one resize listener on the window, has one
\* only while its svg exists, and has none after destroyDiagram().
NoListenerLeak ==
    /\ \A v \in Variants :
          /\ winListeners[v] <= 1
          /\ winListeners[v] = 1 => svg[v] /\ resizeHandler[v]
    /\ lastOp.op = "destroyDiagram" => winListeners[lastOp.v] = 0
    /\ lastOp.op = "initDiagram" /\ lastOp.arg = FALSE => winListeners[lastOp.v] = 0

\* initDiagram ran twice in a row on a present container
NoListenerLeakWitness ==
    /\ lastOp.op = "initDiagram"
    /\ lastOp.again
    /\ lastOp.arg = TRUE
    /\ winListeners[lastOp.v] = 1

\* C6: for each renderer, a component that is the current highlight and is
\* emphasized when the window is resized is still the current highlight and
\* emphasized after the redraw; after destroyDiagram() no highlight remains.
HighlightOverResize ==
    /\ lastOp'.op = "resize" =>
          \A v \in Variants :
              /\ svg[v] /\ winListeners[v] = 1
              /\ currentHighlight[v] \in Boxes(v)
              /\ currentHighlight[v] \in emph[v]
              => /\ currentHighlight'[v] = currentHighlight[v]
                 /\ currentHighlight[v] \in emph'[v]
    /\ lastOp'.op = "destroyDiagram" =>
          currentHighlight'[lastOp'.v] = NULL /\ emph'[lastOp'.v] = {}

HighlightSurvivesResize == [][HighlightOverResize]_vars

\* C7: in each renderer at most one component carries the highlight emphasis
\* (the box under the pointer aside), and it is the current highlight;
\* highlightComponent(k) takes the emphasis off the previous highlight and
\* puts it on k.
OneEmphasis ==
    \A v \in Variants :
        /\ emph[v] \ {hovered[v]} \subseteq {currentHighlight[v]}
        /\ Cardinality(emph[v] \ {hovered[v]}) <= 1

HighlightStep ==
    lastOp'.op = "highlightComponent" /\ svg[lastOp'.v] =>
        LET v == lastOp'.v
            k == lastOp'.arg
        IN /\ currentHighlight[v] # k => currentHighlight[v] \notin emph'[v]
           /\ k \in Boxes(v) => k \in emph'[v]

SingleHighlight == OneEmphasis /\ [][OneEmphasis' /\ HighlightStep]_vars

\* a box is highlighted while the pointer is over another box
SingleHighlightWitness ==
    /\ lastOp.op = "highlightComponent"
    /\ svg[lastOp.v]
    /\ lastOp.arg \in Boxes(lastOp.v)
    /\ hovered[lastOp.v] \notin {NULL, lastOp.arg}
    /\ emph[lastOp.v] = {lastOp.arg, hovered[lastOp.v]}

\* C8: highlightComponent(key) with a key outside the renderer's component
\* set raises nothing and emphasizes no component, in every renderer and in
\* every state (uninitialized, initialized, destroyed).
UnknownKeySilent ==
    lastOp.op = "highlightComponent" /\ lastOp.arg \notin COMPONENTS(lastOp.v) =>
        /\ ~err
        /\ emph[lastOp.v] \subseteq {hovered[lastOp.v]}

\* C9: a click on a component box invokes the registered callback exactly
\* once, with the component's infoKey or else its own key, and leaves MOE
\* mode alone; a click on the toggle region of the FFN box flips MOE mode
\* once, invokes no callback and leaves the highlight alone.
ClickStep ==
    /\ lastOp'.op = "click" =>
          LET v == lastOp'.v
              key == lastOp'.arg
              arg == IF InfoKey(v, key) # "" THEN InfoKey(v, key) ELSE key
          IN /\ calls' = IF onComponentClick[v] # NULL
                         THEN <<(<<"onComponentClick", arg>>)>>
                         ELSE <<>>
             /\ moeMode' = moeMode
    /\ lastOp'.op = "toggleClick" =>
          /\ moeMode' = ~moeMode
          /\ calls' = <<>>
          /\ currentHighlight' = currentHighlight

ClickDispatch == [][ClickStep]_vars

\* the second residual box was clicked and the callback got 'residuals'
ClickDispatchWitness ==
    /\ lastOp.op = "click"
    /\ lastOp.v = "architecture"
    /\ lastOp.arg = "residual2"
    /\ calls = <<(<<"onComponentClick", "residuals">>)>>

\* C10: toggleMOE() flips the mode flag; whenever the architecture diagram is
\* drawn, after any toggles and resize redraws, exactly one of the FFN and
\* MOE groups is shown, MOE iff the flag is set, and the toggle label reads
\* '<- FFN' in MOE mode and '-> MOE' otherwise.  Visibility and label being
\* functions of the flag, two toggles in a row restore both.
Shown(key) == key \notin hiddenClass /\ key \notin opacityZero

MOEVisualState ==
    svg["architecture"] =>
        /\ Shown("moe") <=> moeMode
        /\ Shown("ffn") <=> ~moeMode
        /\ toggleText = IF moeMode THEN "<- FFN" ELSE "-> MOE"

ToggleStep ==
    lastOp'.op \in {"toggleMOE", "toggleClick"} => moeMode' = ~moeMode

MOEToggle == MOEVisualState /\ [][MOEVisualState' /\ ToggleStep]_vars

\* the diagram was redrawn by a resize while in MOE mode
MOEToggleWitness ==
    /\ lastOp.op = "resize"
    /\ svg["architecture"]
    /\ winListeners["architecture"] = 1
    /\ moeMode
    /\ Shown("moe")

\* C11: whenever the architecture diagram is drawn, after any toggleMOE calls
\* and resize redraws, no drawn arrow has an endpoint component that is
\* currently hidden; while the FFN group is hidden in MOE mode the arrows
\* into and out of the FFN box are not drawn.
ArrowsAvoidHidden ==
    svg["architecture"] =>
        \A a \in arrows : a[1] \notin hiddenClass /\ a[2] \notin hiddenClass

HiddenHighlightStep ==
    LET v == "architecture"
    IN /\ /\ lastOp'.op = "highlightComponent"
          /\ lastOp'.v = v
          /\ svg[v]
          /\ lastOp'.arg \in hiddenClass
          => /\ emph'[v] \ {hovered[v]} = {lastOp'.arg} \ {hovered[v]}
             /\ lastOp'.arg \in emph'[v]
             /\ lastOp'.arg \in hiddenClass'
       /\ /\ lastOp'.op \in {"toggleMOE", "toggleClick"}
          /\ svg[v]
          /\ currentHighlight[v] \in hiddenClass
          /\ currentHighlight[v] \in emph[v]
          => /\ Shown(currentHighlight[v])'
             /\ currentHighlight[v] \in emph'[v]

kvData == <<kvCurrentStep, generatedTokens, cache, stats>>

KVCleared ==
    /\ kvCurrentStep = 0
    /\ generatedTokens = <<>>
    /\ cache = 0
    /\ stats = ZeroStats

\* C13: once the user has paused or reset, a playback in progress changes
\* the demo's data no more: a continuous playback that resumes from a sleep
\* with isPlaying false leaves the data alone, and the cleared state that
\* reset() leaves (currentStep 0, no tokens, empty cache, counters 0) stays
\* until the next click on play.
CancelStep ==
    /\ lastOp'.op = "kvTimer" /\ lastOp'.arg = "continuous" /\ ~isPlaying =>
           UNCHANGED kvData
    /\ KVCleared /\ lastOp'.op # "kvPlay" => KVCleared'

PlaybackCancelled == [][CancelStep]_vars

\* C14: once closeModal('kvcache-modal') has run and while the modal stays
\* closed, the playback generates no further token.
ClosedModalStep ==
    ~kvModalOpen /\ ~kvModalOpen' => generatedTokens' = generatedTokens

ClosedModalQuiet == [][ClosedModalStep]_vars

\* C15: with n tokens generated one at a time since a reset and none in
\* progress, with-cache K and V computations are n * kvDim each,
\* without-cache ones (1 + ... + n) * kvDim each, and the savings shown are
\* (withoutTotal - withTotal) / withoutTotal * 100, or 0 when withoutTotal
\* is 0.
KVCounters ==
    stepwise /\ kvTasks = <<>> =>
        LET n == kvCurrentStep
            triangle == (n * (n + 1)) \div 2
            withTotal == 2 * n * kvDim
            withoutTotal == 2 * triangle * kvDim
        IN /\ n \in 0 .. maxTokens
           /\ Len(generatedTokens) = n
           /\ stats.withCache.kComputations = n * kvDim
           /\ stats.withCache.vComputations = n * kvDim
           /\ stats.withoutCache.kComputations = triangle * kvDim
           /\ stats.withoutCache.vComputations = triangle * kvDim
           /\ IF withoutTotal = 0
              THEN savings.num = 0
              ELSE savings.num * withoutTotal
                      = (withoutTotal - withTotal) * 100 * savings.den

\* four tokens were generated step by step: 24 against 60 K computations
KVCountersWitness ==
    /\ stepwise
    /\ kvTasks = <<>>
    /\ lastOp.op = "kvTimer"
    /\ lastOp.arg = "step"
    /\ kvCurrentStep = 4
    /\ stats.withCache.kComputations = 4 * kvDim
    /\ stats.withoutCache.kComputations = 10 * kvDim
    /\ savings.text = 60

\* ---------------------------------------------------------------- attention simulator
\* row i of A is zero right of the diagonal and its entries up to the
\* diagonal sum to 1
RowStochastic(A) ==
    \A i \in DOMAIN A :
        /\ \A j \in DOMAIN A[i] : j > i => A[i][j].num = 0
        /\ A[i][i].den > 0
        /\ Sum([j \in 1 .. i |-> A[i][j].num]) = A[i][i].den

\* C16: in every result, of n tokens with 1 <= n <= 10, the attention weights
\* of every layer and head are causal and row-stochastic: A[i][j] = 0 for
\* j > i, row i sums to 1 over j <= i, and A[0][0] = 1.
CausalRowStochastic ==
    result # NoResult =>
        LET n == Len(result.tokens)
        IN  /\ n \in 1 .. tokenLimit
            /\ \A l \in 0 .. numLayers - 1, h \in 0 .. numHeads - 1 :
                  LET A == getAttentionWeights(result, l, h)
                  IN  /\ DOMAIN A = 1 .. n
                      /\ \A i \in 1 .. n : DOMAIN A[i] = 1 .. n
                      /\ RowStochastic(A)
                      /\ A[1][1].num = A[1][1].den

\* a result of ten tokens where the last token of layer 0, head 0 spreads its
\* attention unevenly over earlier tokens
CausalRowStochasticWitness ==
    /\ result # NoResult
    /\ Len(result.tokens) = tokenLimit
    /\ LET A == getAttentionWeights(result, 0, 0)
       IN  \E j, k \in 1 .. tokenLimit :
              /\ 0 < A[tokenLimit][j].num
              /\ A[tokenLimit][j].num < A[tokenLimit][k].num

\* the run button was pressed with a text that is not blank
RanText == lastOp'.op = "attnRun" /\ trim(lastOp'.arg) # <<>>

\* a run on text stores what runAttentionDemo is to return for it
DemoStep ==
    RanText =>
        LET all == tokenize(trim(lastOp'.arg))
            kept == IF Len(all) < tokenLimit THEN Len(all) ELSE tokenLimit
        IN  IF all = <<>> THEN result' = NoResult
            ELSE /\ result'.tokens = SubSeq(all, 1, kept)
                 /\ Len(result'.layerResults) = numLayers
                 /\ result'.layerResults[1].inputEmbeddings
                        = getEmbeddings(result'.tokens)
                 /\ \A l \in 1 .. numLayers :
                       /\ result'.layerResults[l].layer = l - 1
                       /\ Len(result'.layerResults[l].attention.headResults) = numHeads
                 /\ \A l \in 1 .. numLayers - 1 :
                       result'.layerResults[l + 1].inputEmbeddings
                           = result'.layerResults[l].outputEmbeddings

\* C17: runAttentionDemo returns null, having run no layer, when the text has
\* no token; otherwise it keeps at most the first 10 tokens and returns 3
\* layer results of 4 head results each, the input embeddings of layer L+1
\* being the output embeddings of layer L.
DemoShape == [][DemoStep]_vars

\* a run on a text of more than ten tokens kept ten
DemoShapeWitness ==
    /\ lastOp.op = "attnRun"
    /\ Len(tokenize(trim(lastOp.arg))) > tokenLimit
    /\ Len(result.tokens) = tokenLimit
    /\ Len(result.layerResults) = numLayers

\* a run on a text with no token leaves this.result as it was
EmptyRunStep ==
    (lastOp'.op = "attnRun" /\ tokenize(trim(lastOp'.arg)) = <<>>)
        => result' = result

WeightsStep == weights # NoWeights => weights' = weights

\* C19: after the first initWeights() call every later call, from
\* runAttentionDemo, runMultiHeadAttention or runFFN in any order of demo
\* runs, leaves the weights object unchanged.
WeightsBuiltOnce == [][WeightsStep]_vars

\* a complete run has called initWeights seven times and one object was built
WeightsBuiltOnceWitness ==
    /\ Len(result.layerResults) = numLayers
    /\ weights.object = 1
    /\ built = 1

\* ---------------------------------------------------------------- section switching
\* C20: in any interleaving of switchSection calls and animation frames, the
\* afterRender callback passed to switchSection(S, {afterRender}) is invoked
\* only when S's diagram module is the current one and has rendered.
AfterRenderOnRendered ==
    \A i \in DOMAIN calls :
        calls[i][1] = "afterRender" =>
            /\ currentDiagramModule = calls[i][2]
            /\ svg[calls[i][2]]

\* ---------------------------------------------------------------- tour steps
\* the index the handler of this step passed to showStep and showStep took
\* (-1: it showed no step)
ShownIndex ==
    CASE lastOp'.op = "start" -> 0
      [] lastOp'.op = "tourButton" -> IF tourScript' = 0 THEN 0 ELSE -1
      [] lastOp'.op = "next" ->
            IF currentStep < NumSteps - 1 THEN currentStep + 1 ELSE -1
      [] lastOp'.op = "prev" -> IF currentStep > 0 THEN currentStep - 1 ELSE -1
      [] lastOp'.op = "goToStep" ->
            IF lastOp'.arg \in 0 .. NumSteps - 1 THEN lastOp'.arg ELSE -1
      [] OTHER -> -1

\* showStep for a step without its target raises nothing, hides the
\* spotlight and leaves the tour on that step
MissingTargetStep ==
    (ShownIndex >= 0 /\ ~targetPresent(World, ShownIndex)) =>
        /\ ~err'
        /\ spotlight' = "none"
        /\ currentStep' = ShownIndex
        /\ active' = (active \/ lastOp'.op \in {"start", "tourButton"})

\* C21: showStep for a step whose target element or component is not in the
\* current view raises no error, centres the tooltip, hides the spotlight
\* and leaves the tour able to continue.
MissingTargetNotFatal == [][MissingTargetStep]_vars

\* the handlers that call into the Tour object
TourOps == {"start", "tourButton", "next", "prev", "goToStep", "exit"}

\* a tour call leaves the highlight of every diagram but the current
\* section's as it was
DecoupledStep ==
    lastOp'.op \in TourOps =>
        \A v \in Variants \ {currentSection} :
            /\ currentHighlight'[v] = currentHighlight[v]
            /\ emph'[v] = emph[v]

\* C22: the tour applies its highlight, clear-highlight and reveal-MOE
\* effects only through the host, on the diagram of the section displayed: a
\* tour step never changes the highlight state of another diagram.
TourDecoupled == [][DecoupledStep]_vars

\* showing the step with the showMOE action on a rendered architecture
\* diagram leaves it in MOE mode, and no tour call leaves MOE mode
RevealStep ==
    /\ (ShownIndex >= 0 /\ hasShowMOE(ShownIndex) /\ svg["architecture"]) =>
           /\ ~err'
           /\ moeMode'
           /\ "moe" \notin hiddenClass'
    /\ (lastOp'.op \in TourOps /\ moeMode) => moeMode'

\* C23: whenever the tour shows the step whose action is 'showMOE' while the
\* architecture diagram is rendered, the diagram is in MOE mode afterwards;
\* the action only turns MOE mode on, however often the step is shown.
RevealMOE == [][RevealStep]_vars

\* the showMOE step revisited on a rendered diagram, in MOE mode afterwards
RevealMOEWitness ==
    /\ lastOp.op \in {"next", "prev", "goToStep"}
    /\ active
    /\ hasShowMOE(currentStep)
    /\ tourScript = -1
    /\ svg["architecture"]
    /\ moeMode
    /\ ~err

\* after showStep(i) on a rendered architecture diagram the highlight is
\* step i's componentKey, or none where the step has no componentKey
StepHighlightStep ==
    (ShownIndex >= 0 /\ svg["architecture"]) =>
        /\ ~err'
        /\ currentHighlight'["architecture"] = componentKeyOf(ShownIndex)
        /\ emph'["architecture"] =
              IF componentKeyOf(ShownIndex) = NULL THEN {}
              ELSE {componentKeyOf(ShownIndex)}

\* C24: after showStep(i) with the architecture diagram rendered, the
\* diagram's current highlight is step i's componentKey when it has one and
\* nothing is highlighted when it has none (steps 5 and 9), whatever was
\* highlighted before.
StepHighlight == [][StepHighlightStep]_vars

\* next() from the step on 'ffn' to step 5, which has no componentKey
StepHighlightWitness ==
    /\ lastOp.op = "next"
    /\ active
    /\ currentStep = 5
    /\ svg["architecture"]
    /\ currentHighlight["architecture"] = NULL
    /\ emph["architecture"] = {}
    /\ ~err

\* ---------------------------------------------------------------- layout
\* C25: for every variant and every container width, the layout computed
\* from the component table as earlier passes left it is the layout computed
\* from the table as loaded, and a drawing on the page carries exactly that
\* layout for its width: no earlier pass, applyLayout included, changes a
\* later layout.
LayoutHistoryFree ==
    /\ \A v \in Variants : \A width \in Widths :
           layoutOf(v, componentY, width) = layoutOf(v, InferenceY, width)
    /\ \A v \in Variants :
           svg[v] => drawn[v].layout = layoutOf(v, InferenceY, viewWidth[v])

\* the narrow layout has been applied to the inference component table, and
\* the inference diagram has since been laid out wide
LayoutHistoryFreeWitness ==
    /\ dut = "inference"
    /\ lastOp.op = "resize"
    /\ lastOp.arg = <<WidthSmall, WidthLarge>>
    /\ svg[dut]
    /\ componentY # InferenceY
    /\ drawn[dut].layout.mode = "wide"

\* a resize handler redrew the drawing under test in the other mode
ResizeAcrossStep ==
    /\ lastOp'.op = "resize"
    /\ svg[dut] /\ svg'[dut]
    /\ modeOf(dut, componentY, viewWidth[dut]) # modeOf(dut, componentY', viewWidth'[dut])

\* C26: for each variant the large width selects wide mode and the small
\* width narrow mode, and a resize from one to the other changes the layout
\* while the component groups, their order and the number of connectors
\* stay the same.
ResizeKeepsContent ==
    [][/\ \A v \in Variants :
              /\ modeOf(v, componentY, WidthLarge) = "wide"
              /\ modeOf(v, componentY, WidthSmall) = "narrow"
       /\ ResizeAcrossStep =>
              /\ drawn'[dut].components = drawn[dut].components
              /\ drawn'[dut].connectors = drawn[dut].connectors
              /\ drawn'[dut].layout # drawn[dut].layout]_vars

\* a drawing made wide has been resized to the small width and is narrow
ResizeKeepsContentWitness ==
    /\ lastOp.op = "resize"
    /\ lastOp.arg = <<WidthLarge, WidthSmall>>
    /\ svg[dut]
    /\ modeOf(dut, componentY, viewWidth[dut]) = "narrow"
    /\ Len(drawn[dut].components) > 0

\* ---------------------------------------------------------------- clearHighlight
ClearStep ==
    lastOp'.op = "clearHighlight" =>
        LET v == lastOp'.v
        IN /\ ~err'
           /\ currentHighlight'[v] = NULL
           /\ (\/ lastOp.op = "clearHighlight" /\ lastOp.v = v
               \/ currentHighlight[v] = NULL)
              => UNCHANGED programVars

\* C27: clearHighlight() of each renderer raises nothing and leaves
\* currentHighlight none; called right after another clearHighlight(), or
\* with nothing highlighted, it changes nothing.
ClearIdempotent == [][ClearStep]_vars

\* ---------------------------------------------------------------- info panel
\* an info-panel request for a key with no entry in the current section's
\* info content
UnknownInfoRequest ==
    /\ lastOp'.op = "infoRequest"
    /\ lastOp'.arg[2] \notin InfoContent(currentSection)

\* C28: an info-panel request, through the component click callback or
\* openInfoPanel, for a key that the current section's info content does not
\* have raises nothing and leaves infoPanelOpen, currentInfoKey and the
\* panel's content as they were.
UnknownInfoKeySilent ==
    [][UnknownInfoRequest =>
           /\ ~err'
           /\ infoPanelOpen' = infoPanelOpen
           /\ currentInfoKey' = currentInfoKey
           /\ panelContent' = panelContent]_vars

\* with the tokenization panel open in the architecture section,
\* openInfoPanel was called with a key that only the training section has
UnknownInfoKeySilentWitness ==
    /\ lastOp.op = "infoRequest"
    /\ lastOp.arg = <<"openInfoPanel", "datasetPrep">>
    /\ currentSection = "architecture"
    /\ infoPanelOpen
    /\ currentInfoKey = "tokenization"

\* C29: after a click on a component box whose infoKey has content in the
\* current section, so that the info panel shows that key, the component
\* highlighted in the diagram is the clicked one and no other box carries
\* the emphasis; residual1 and residual2, which share the infoKey
\* 'residuals', included.
ClickedStaysHighlighted ==
    /\ lastOp.op = "click"
    /\ InfoKey(lastOp.v, lastOp.arg) \in InfoContent(currentSection)
    /\ infoPanelOpen
    /\ currentInfoKey = InfoKey(lastOp.v, lastOp.arg)
    => /\ currentHighlight[lastOp.v] = lastOp.arg
       /\ emph[lastOp.v] = {lastOp.arg} \cap Boxes(lastOp.v)

\* ---------------------------------------------------------------- section switches
\* a pending animation frame runs for a request that a later switchSection
\* has superseded
StaleFrame ==
    /\ lastOp'.op = "frame"
    /\ Head(frames).renderToken # sectionRenderToken

\* the diagram modules that hold a drawing
Initialized == {v \in Variants : svg[v]}

\* at most one diagram module is initialized, and with no animation frame
\* pending it is the one of currentSection
OneDiagram ==
    /\ Cardinality(Initialized) <= 1
    /\ frames = <<>> => Initialized = {currentSection}

\* C30: a render request superseded by a later switchSection before its
\* animation frame runs initializes no diagram and invokes no afterRender
\* callback; at most one of the three diagram modules is initialized at any
\* moment; and with no animation frame pending the initialized diagram is
\* the one of currentSection.
LatestSwitchWins ==
    /\ OneDiagram
    /\ [][/\ OneDiagram'
          /\ StaleFrame =>
                 /\ svg' = svg
                 /\ drawn' = drawn
                 /\ currentDiagramModule' = currentDiagramModule
                 /\ calls' = <<>>
                 /\ infoPanelOpen' = infoPanelOpen
                 /\ ~err']_vars

\* the frame of a cross-section link's request has run after a later switch
\* superseded it: nothing is drawn, and the later switch's frame is pending
LatestSwitchWinsWitness ==
    /\ lastOp.op = "frame"
    /\ lastOp.arg.renderToken < sectionRenderToken
    /\ lastOp.arg.afterRender # NULL
    /\ lastOp.arg.section # currentSection
    /\ Initialized = {}
    /\ Len(frames) = 1

\* the panel is open exactly when it has a key, and that key has content in
\* the current section
PanelConsistent ==
    /\ infoPanelOpen <=> currentInfoKey # NULL
    /\ infoPanelOpen => currentInfoKey \in InfoContent(currentSection)

\* the step switches the view, or asks for a section other than the current one
SwitchAwayStep ==
    \/ lastOp'.op = "switchView"
    \/ /\ lastOp'.op \in {"switchSection", "crossLink"}
       /\ lastOp'.arg # currentSection

\* C31: in every state the info panel is open exactly when currentInfoKey is
\* set, and an open panel's key has content in the current section; a switch
\* to a different section and a switch of the view leave the panel closed
\* with no key, and the diagram that was current without a highlight
PanelStateKept ==
    /\ PanelConsistent
    /\ [][/\ PanelConsistent'
          /\ SwitchAwayStep =>
                /\ ~infoPanelOpen'
                /\ currentInfoKey' = NULL
                /\ currentDiagramModule # NULL =>
                      /\ currentHighlight'[currentDiagramModule] = NULL
                      /\ emph'[currentDiagramModule] = {}]_vars

\* C32: whatever play clicks were made, some of them while an earlier
\* generation step was in its animation delay, once no step is pending
\* currentStep is at most maxTokens, there are currentStep generated tokens
\* and currentStep cached rows, and the generated tokens are the first
\* currentStep sample tokens in order
SequenceIntegrity ==
    kvTasks = <<>> =>
        /\ kvCurrentStep <= maxTokens
        /\ Len(generatedTokens) = kvCurrentStep
        /\ cache = kvCurrentStep
        /\ generatedTokens = SubSeq(SAMPLE_TOKENS, 1, kvCurrentStep)

\* the suspended handlePlay calls that are in the continuous loop
PlaybackLoops == {i \in DOMAIN kvTasks : kvTasks[i].kind = "continuous"}

\* a continuous loop comes back from its sleep and generates the next token
LoopGeneratesStep ==
    /\ lastOp'.op = "kvTimer"
    /\ lastOp'.arg = "continuous"
    /\ Len(generatedTokens') > Len(generatedTokens)

\* C33: at most one continuous playback loop runs at a time: however pause
\* and play are clicked around the loop's sleeps, a loop that goes on to
\* generate a token is the only handlePlay loop in flight
OnePlaybackLoop ==
    [][LoopGeneratesStep => Cardinality(PlaybackLoops) = 1]_vars

PlaybackOver ==
    /\ ~isPlaying
    /\ kvTasks = <<>>
    /\ kvCurrentStep = maxTokens

\* C34: a continuous playback that is not interrupted, started at any
\* currentStep in 0 .. maxTokens, stops in the end with currentStep =
\* maxTokens and isPlaying false, and a click on play after that generates
\* no further token
PlaybackTerminates ==
    /\ isPlaying ~> PlaybackOver
    /\ [][PlaybackOver /\ lastOp'.op = "kvPlay" =>
             /\ PlaybackOver'
             /\ UNCHANGED kvData]_vars

\* a loop has come back from its last sleep, found currentStep = maxTokens
\* and ended
PlaybackTerminatesWitness ==
    /\ PlaybackOver
    /\ lastOp.op = "kvTimer"
    /\ lastOp.arg = "continuous"
    /\ kvMode = "continuous"
    /\ playText = "Play All"
    /\ Len(generatedTokens) = maxTokens

\* layer 0, its heads 0 .. 3, layer 1, its heads, layer 2, its heads; a
\* layer selection is written <<l, -1>>, a head selection <<l, h>>
FlowOrder ==
    [i \in 1 .. numLayers * (numHeads + 1) |->
        <<(i - 1) \div (numHeads + 1), ((i - 1) % (numHeads + 1)) - 1>>]

FlowState ==
    /\ Len(flowTasks) <= 1
    /\ animating <=> flowTasks # <<>>
    /\ currentLayer \in 0 .. numLayers - 1
    /\ currentHead \in 0 .. numHeads - 1
    /\ Len(flowLog) <= Len(FlowOrder)
    /\ flowLog = SubSeq(FlowOrder, 1, Len(flowLog))

\* animateFlow() is called during an animation, or without a result
IdleAnimateStep ==
    /\ lastOp'.op = "animateFlow"
    /\ animating \/ result = NoResult

\* the animation ends
FlowEndStep == animating /\ ~animating'

\* C35: at most one animateFlow() is in flight; a call during an animation
\* and a call without a result change nothing; the animation selects layers
\* 0 .. 2 in order and after each layer its heads 0 .. 3 in order, and when
\* nothing else was done to the demo meanwhile it ends with animating
\* false, currentLayer 2 and currentHead 3; currentLayer stays in 0 .. 2 and
\* currentHead in 0 .. 3
FlowExclusive ==
    /\ FlowState
    /\ [][/\ FlowState'
          /\ IdleAnimateStep =>
                UNCHANGED <<weights, result, currentLayer, currentHead,
                            animating, flowTasks, flowLog>>
          /\ FlowEndStep =>
                /\ flowLog' = FlowOrder
                /\ flowTasks' = <<>>
                /\ ~interrupted =>
                      /\ currentLayer' = numLayers - 1
                      /\ currentHead' = numHeads - 1]_vars

\* an animation that nothing interrupted has just ended
FlowExclusiveWitness ==
    /\ lastOp.op = "flowTimer"
    /\ lastOp.arg = [l |-> numLayers - 1, h |-> numHeads - 1]
    /\ ~animating
    /\ ~interrupted
    /\ result # NoResult
    /\ flowLog = FlowOrder
    /\ currentLayer = numLayers - 1
    /\ currentHead = numHeads - 1

\* the seeds the matrices of a weights object were generated from
SeedsOf(object) ==
    UNION {{object.layers[l].Wq[h] : h \in 0 .. numHeads - 1}
             \cup {object.layers[l].Wk[h] : h \in 0 .. numHeads - 1}
             \cup {object.layers[l].Wv[h] : h \in 0 .. numHeads - 1}
             \cup {object.layers[l].Wo, object.layers[l].W1, object.layers[l].W2}
           : l \in 0 .. numLayers - 1}

\* C36: the seeds of Wq, Wk and Wv of every layer and head and of Wo, W1
\* and W2 of every layer are pairwise distinct: the numLayers * (3 * numHeads
\* + 3) matrices of the weights object come from as many seeds
SeedsDistinct ==
    weights # NoWeights =>
        Cardinality(SeedsOf(weights)) = numLayers * (3 * numHeads + 3)

\* the weights have been built by a run
SeedsDistinctWitness ==
    /\ weights # NoWeights
    /\ built = 1
    /\ lastOp.op = "attnRun"
    /\ weights.layers[numLayers - 1].Wv[numHeads - 1] = 2303
    /\ weights.layers[numLayers - 1].W2 = 2600

\* initDiagram of the architecture renderer has run
ArchInitStep ==
    /\ lastOp'.op = "initDiagram"
    /\ lastOp'.v = "architecture"

\* C37: every initDiagram of the architecture renderer, the first or a
\* later one and whatever toggleMOE calls came before it, leaves the
\* renderer in FFN mode with no highlight (and, where it drew, the FFN
\* group shown and the MOE group hidden); a resize redraw leaves the mode
\* flag as it was and shows the group that matches it
ModeAcrossLifecycle ==
    [][/\ ArchInitStep =>
             /\ ~moeMode'
             /\ currentHighlight'["architecture"] = NULL
             /\ emph'["architecture"] = {}
             /\ svg'["architecture"] =>
                   /\ Shown("ffn")'
                   /\ ~Shown("moe")'
                   /\ toggleText' = "-> MOE"
       /\ lastOp'.op = "resize" =>
             /\ moeMode' = moeMode
             /\ MOEVisualState']_<<lastOp.op, vars>>

\* the architecture diagram was initialized again and drew
ModeAcrossLifecycleWitness ==
    /\ lastOp.op = "initDiagram"
    /\ lastOp.v = "architecture"
    /\ lastOp.again
    /\ svg["architecture"]
    /\ ~moeMode
    /\ Shown("ffn")
    /\ "moe" \in hiddenClass

\* the mode the drawing of variant v was laid out in
DrawnMode(v) ==
    IF v = "training" THEN loopMode(px(viewWidth[v])) ELSE drawn[v].layout.mode

\* C38: for each of the three diagrams, a drawing laid out wide at its
\* container width is laid out wide at every larger width as well
WideStaysWide ==
    \A v \in Variants :
        svg[v] /\ DrawnMode(v) = "wide" =>
            \A wider \in viewWidth[v] + 1 .. MaxWidth :
                modeOf(v, componentY, wider) = "wide"

\* a diagram is drawn wide at the smallest width that selects wide mode
WideStaysWideWitness ==
    /\ lastOp.op = "initDiagram"
    /\ svg[dut]
    /\ DrawnMode(dut) = "wide"
    /\ viewWidth[dut] < MaxWidth
    /\ modeOf(dut, componentY, viewWidth[dut] - 1) = "narrow"

\* C39: in an inference diagram drawn for a container at least 200 pixels
\* wide the KV-cache box lies within the horizontal bounds; in wide mode its
\* left edge is at least the lane gap of 36 pixels right of the main
\* column's right edge; in narrow mode it lies below the decode-loop
\* container, the detokenize box lies below it, and the diagram is high
\* enough to hold the detokenize box
CacheBoxClear ==
    svg["inference"] /\ viewWidth["inference"] >= 200 =>
        LET layout == drawn["inference"].layout
            bounds == getHorizontalBounds(px(viewWidth["inference"]), px(8))
        IN /\ bounds.minX <= layout.kvX
           /\ layout.kvX + layout.kvWidth <= bounds.maxX
           /\ layout.mode = "wide" =>
                 layout.kvX >= layout.mainX + layout.mainWidth + px(36)
           /\ layout.mode = "narrow" =>
                 /\ componentY.kvCache
                       >= componentY.autoregressiveLoop
                            + InferenceHeight.autoregressiveLoop
                 /\ componentY.detokenize
                       >= componentY.kvCache + InferenceHeight.kvCache
                 /\ layout.height
                       >= componentY.detokenize + InferenceHeight.detokenize

\* the inference diagram is drawn narrow in a container 200 pixels wide, the
\* cache box moved under the decode loop
CacheBoxClearWitness ==
    /\ svg["inference"]
    /\ viewWidth["inference"] = 200
    /\ drawn["inference"].layout.mode = "narrow"
    /\ componentY.kvCache = drawn["inference"].layout.kvY
    /\ componentY.kvCache # InferenceY.kvCache

====
